---- MODULE Spec2Model ----
(***************************************************************************)
(* A model of the boomerang Messenger bot (src/boomerang/server.py and     *)
(* src/boomerang/events.py): the /webhook route (registration by GET,      *)
(* event delivery by POST), the decoding of envelopes into events, the     *)
(* dispatch of events to the handler methods, and the outbound Send API.   *)
(*                                                                         *)
(* Python values are modelled as follows.  A dict is a function whose      *)
(* domain is the set of its keys, so `k in d` is k \in DOMAIN d and d[k]   *)
(* with k absent is a KeyError.  A list is a sequence.  A str is a string, *)
(* except where the code parses it (sender ids), where it is a sequence    *)
(* of one-character strings.  None is the record None.  A raised           *)
(* exception is a record [exception |-> <class name>].                     *)
(***************************************************************************)
EXTENDS Integers, Sequences, FiniteSets, TLC

VARIABLES
    pc,          \* position of the one request or call being served
    request,     \* the request object handed to the /webhook route
    entryIdx,    \* items consumed by the iterator over request.json['entry']
    event,       \* binding of the name `event' in handle_webhook
    messaging,   \* the list the inner for-loop iterates (captured at loop entry)
    msgIdx,      \* items consumed by the iterator over that list
    awaiting,    \* the handler invocation being awaited, or None
    visited,     \* history: positions <<entry, envelope>> examined, in order
    calls,       \* history: handler invocations of this request, in order
    posts,       \* history: bodies POSTed to the Graph API, in order
    answers,     \* history: what the Graph API answered to them, in order
    response,    \* what the /webhook route gave back to the HTTP layer
    invocation,  \* the client-API call being served (send, send_action, ...)
    result,      \* what that call returned or raised
    request_queue, \* the local list request_queue of set_thread_settings
    _base_url,   \* the attribute self._base_url
    _attachments, \* the attribute self._attachments: filename -> relative url
    static,      \* history: the calls self._server.static(url, filename)
    hosted       \* history: the calls of host_attachment, with what they gave

\* What the bot keeps from one request or call to the next.
hosting == <<_base_url, _attachments, static, hosted>>

vars == <<pc, request, entryIdx, event, messaging, msgIdx, awaiting, visited,
          calls, posts, answers, response, invocation, result, request_queue,
          hosting>>

-----------------------------------------------------------------------------
(* Bounds of the model.                                                    *)

MaxKeys == 2        \* recognised keys carried by one envelope
MaxEntries == 2     \* entries of one batched webhook payload
MaxBatch == 2       \* envelopes of one batched webhook payload
MaxFiles == 2       \* distinct filenames given to host_attachment
MaxHosted == 3      \* calls of host_attachment in one run of the bot
MaxTextLen == 21    \* characters of the text given to a button
MaxAttachments == 2 \* attachments of one decoded message
MaxQuickReplies == 2 \* quick replies of one outbound message
MaxElements == 5    \* elements given to a list template
MaxReplies == 5     \* values in the sequence a handler returns
MaxHandlers == 2    \* handlers registered for one event type

-----------------------------------------------------------------------------
(* Python values.                                                          *)

None == [class |-> "NoneType"]

\* An attribute the constructor never assigned: reading it is an
\* AttributeError.
Unset == [unset |-> TRUE]

\* The empty dict.
EmptyDict == [k \in {} |-> None]

\* A str whose length or concatenation the code uses: its characters, or
\* the pieces it is put together from.
Str(s) == [str |-> s]

len(s) == Len(s.str)

concat(a, b) == Str(a.str \o b.str)

Raise(exc) == [exception |-> exc]

IsRaise(v) == "exception" \in DOMAIN v

Last(s) == s[Len(s)]

\* int(str) on a decimal string, src/boomerang/server.py:124.
DigitChars == <<"0", "1", "2", "3", "4", "5", "6", "7", "8", "9">>

IsDigit(c) == \E i \in 1..Len(DigitChars) : DigitChars[i] = c

DigitValue(c) == (CHOOSE i \in 1..Len(DigitChars) : DigitChars[i] = c) - 1

RECURSIVE IntOfDigits(_)
IntOfDigits(s) ==
    IF Len(s) = 0 THEN 0
    ELSE IntOfDigits(SubSeq(s, 1, Len(s) - 1)) * Len(DigitChars)
         + DigitValue(s[Len(s)])

\* int that reads the digits from the right.
int_reversed(s) ==
    IF Len(s) > 0 /\ \A i \in 1..Len(s) : IsDigit(s[i])
    THEN [value |-> IntOfDigits([i \in 1..Len(s) |-> s[Len(s) + 1 - i]])]
    ELSE Raise("ValueError")

int(s) ==
    IF Len(s) > 0 /\ \A i \in 1..Len(s) : IsDigit(s[i])
    THEN [value |-> IntOfDigits(s)]
    ELSE Raise("ValueError")

\* str(n) of an int that is not negative: its decimal digits.
RECURSIVE str(_)
str(n) ==
    IF n < Len(DigitChars) THEN Str(<< DigitChars[n + 1] >>)
    ELSE concat(str(n \div Len(DigitChars)),
                Str(<< DigitChars[(n % Len(DigitChars)) + 1] >>))

-----------------------------------------------------------------------------
(* Event decoding, src/boomerang/events.py.  Each from_json gives the      *)
(* decoded object, or the exception its first failing subscript raises.    *)

QuickReply_from_json(json) ==
    IF "payload" \in DOMAIN json
    THEN [class |-> "QuickReply", payload |-> json.payload]
    ELSE Raise("KeyError")

MediaAttachment_from_json(json) ==
    IF /\ "type" \in DOMAIN json
       /\ "payload" \in DOMAIN json
       /\ "url" \in DOMAIN json.payload
    THEN [class |-> "MediaAttachment", media_type |-> json.type,
          url |-> json.payload.url]
    ELSE Raise("KeyError")

\* A decoding that hands the coordinates over in the order of the JSON
\* keys 'long', 'lat'.
LocationAttachment_from_json_swapped(json) ==
    IF /\ "payload" \in DOMAIN json
       /\ "coordinates" \in DOMAIN json.payload
       /\ "lat" \in DOMAIN json.payload.coordinates
       /\ "long" \in DOMAIN json.payload.coordinates
    THEN [class |-> "LocationAttachment",
          latitude |-> json.payload.coordinates.long,
          longitude |-> json.payload.coordinates.lat]
    ELSE Raise("KeyError")

LocationAttachment_from_json(json) ==
    IF /\ "payload" \in DOMAIN json
       /\ "coordinates" \in DOMAIN json.payload
       /\ "lat" \in DOMAIN json.payload.coordinates
       /\ "long" \in DOMAIN json.payload.coordinates
    THEN [class |-> "LocationAttachment",
          latitude |-> json.payload.coordinates.lat,
          longitude |-> json.payload.coordinates.long]
    ELSE Raise("KeyError")

\* A decoding that makes every attachment a MediaAttachment.
Attachment_from_json_media(attachment) ==
    IF "type" \notin DOMAIN attachment THEN Raise("KeyError")
    ELSE IF /\ "payload" \in DOMAIN attachment
            /\ "url" \notin DOMAIN attachment.payload
         THEN [class |-> "MediaAttachment", media_type |-> attachment.type,
               url |-> ""]
         ELSE MediaAttachment_from_json(attachment)

Attachment_from_json(attachment) ==
    IF "type" \notin DOMAIN attachment THEN Raise("KeyError")
    ELSE IF attachment.type = "location"
         THEN LocationAttachment_from_json(attachment)
         ELSE MediaAttachment_from_json(attachment)

\* A decoding that puts None for a missing mid or seq.
MessageReceived_from_json_defaulting(user_id, timestamp, json) ==
    LET quick_reply == IF "quick_reply" \in DOMAIN json
                       THEN QuickReply_from_json(json.quick_reply)
                       ELSE None
        raw == IF "attachments" \in DOMAIN json THEN json.attachments ELSE <<>>
        attachments == [i \in 1..Len(raw) |-> Attachment_from_json(raw[i])]
        text == IF "text" \in DOMAIN json THEN json.text ELSE ""
    IN  IF IsRaise(quick_reply) THEN quick_reply
        ELSE IF \E i \in 1..Len(raw) : IsRaise(attachments[i])
        THEN Raise("KeyError")
        ELSE [class |-> "MessageReceived", user_id |-> user_id,
              timestamp |-> timestamp, text |-> text,
              attachments |-> attachments, quick_reply |-> quick_reply,
              message_id |-> IF "mid" \in DOMAIN json THEN json.mid ELSE "",
              sequence_position |-> IF "seq" \in DOMAIN json THEN json.seq
                                    ELSE 0]

MessageReceived_from_json(user_id, timestamp, json) ==
    LET quick_reply == IF "quick_reply" \in DOMAIN json
                       THEN QuickReply_from_json(json.quick_reply)
                       ELSE None
        raw == IF "attachments" \in DOMAIN json THEN json.attachments ELSE <<>>
        attachments == [i \in 1..Len(raw) |-> Attachment_from_json(raw[i])]
        text == IF "text" \in DOMAIN json THEN json.text ELSE ""
    IN  IF IsRaise(quick_reply) THEN quick_reply
        ELSE IF \E i \in 1..Len(raw) : IsRaise(attachments[i])
        THEN Raise("KeyError")
        ELSE IF "mid" \notin DOMAIN json \/ "seq" \notin DOMAIN json
        THEN Raise("KeyError")
        ELSE [class |-> "MessageReceived", user_id |-> user_id,
              timestamp |-> timestamp, text |-> text,
              attachments |-> attachments, quick_reply |-> quick_reply,
              message_id |-> json.mid, sequence_position |-> json.seq]

MessageDelivered_from_json(user_id, timestamp, json) ==
    LET message_ids == IF "mids" \in DOMAIN json THEN json.mids ELSE <<>>
    IN  IF "watermark" \notin DOMAIN json \/ "seq" \notin DOMAIN json
        THEN Raise("KeyError")
        ELSE [class |-> "MessageDelivered", user_id |-> user_id,
              timestamp |-> timestamp, watermark |-> json.watermark,
              message_ids |-> message_ids, sequence_position |-> json.seq]

MessageRead_from_json(user_id, timestamp, json) ==
    IF "watermark" \notin DOMAIN json \/ "seq" \notin DOMAIN json
    THEN Raise("KeyError")
    ELSE [class |-> "MessageRead", user_id |-> user_id,
          timestamp |-> timestamp, watermark |-> json.watermark,
          sequence_position |-> json.seq]

Referral_from_json(user_id, timestamp, json) ==
    IF "ref" \notin DOMAIN json THEN Raise("KeyError")
    ELSE [class |-> "Referral", user_id |-> user_id,
          timestamp |-> timestamp, data |-> json.ref]

Postback_from_json(user_id, timestamp, json) ==
    LET referral == IF "referral" \in DOMAIN json
                    THEN Referral_from_json(user_id, timestamp, json.referral)
                    ELSE None
    IN  IF IsRaise(referral) THEN referral
        ELSE IF "payload" \notin DOMAIN json THEN Raise("KeyError")
        ELSE [class |-> "Postback", user_id |-> user_id,
              timestamp |-> timestamp, payload |-> json.payload,
              referral |-> referral]

OptIn_from_json(user_id, timestamp, json) ==
    IF "ref" \notin DOMAIN json THEN Raise("KeyError")
    ELSE [class |-> "OptIn", user_id |-> user_id,
          timestamp |-> timestamp, data |-> json.ref]

\* A decoding that takes the authorization code whenever the JSON has one.
AccountLink_from_json_unbranched(user_id, timestamp, json) ==
    IF "status" \notin DOMAIN json THEN Raise("KeyError")
    ELSE IF "authorization_code" \notin DOMAIN json
    THEN [class |-> "AccountLink", user_id |-> user_id,
          timestamp |-> timestamp, status |-> json.status,
          authorization_code |-> None]
    ELSE [class |-> "AccountLink", user_id |-> user_id,
          timestamp |-> timestamp, status |-> json.status,
          authorization_code |-> json.authorization_code]

AccountLink_from_json(user_id, timestamp, json) ==
    IF "status" \notin DOMAIN json THEN Raise("KeyError")
    ELSE IF json.status = "unlinked"
    THEN [class |-> "AccountLink", user_id |-> user_id,
          timestamp |-> timestamp, status |-> json.status,
          authorization_code |-> None]
    ELSE IF "authorization_code" \notin DOMAIN json THEN Raise("KeyError")
    ELSE [class |-> "AccountLink", user_id |-> user_id,
          timestamp |-> timestamp, status |-> json.status,
          authorization_code |-> json.authorization_code]

\* message_class.from_json(user_id, timestamp, json), by class.
from_json(message_class, user_id, timestamp, json) ==
    CASE message_class = "MessageReceived" ->
            MessageReceived_from_json(user_id, timestamp, json)
      [] message_class = "MessageDelivered" ->
            MessageDelivered_from_json(user_id, timestamp, json)
      [] message_class = "MessageRead" ->
            MessageRead_from_json(user_id, timestamp, json)
      [] message_class = "Postback" ->
            Postback_from_json(user_id, timestamp, json)
      [] message_class = "Referral" ->
            Referral_from_json(user_id, timestamp, json)
      [] message_class = "OptIn" ->
            OptIn_from_json(user_id, timestamp, json)
      [] message_class = "AccountLink" ->
            AccountLink_from_json(user_id, timestamp, json)

-----------------------------------------------------------------------------
(* Buttons, src/boomerang/buttons.py.  A constructor gives the object, or  *)
(* the exception it raises.                                                *)

\* The longest text a button may carry, buttons.py:17.
MaxButtonText == 20

\* Button.__init__ with the limit one too low.
Button_init_short(button_type, text) ==
    IF len(text) >= MaxButtonText
    THEN Raise("BoomerangException")
    ELSE [button_type |-> button_type, text |-> text]

\* Button.__init__, buttons.py:14-21.
Button_init(button_type, text) ==
    IF len(text) > MaxButtonText
    THEN Raise("BoomerangException")
    ELSE [button_type |-> button_type, text |-> text]

\* URLButton.__init__, buttons.py:31-34.
URLButton(text, url) ==
    LET self == Button_init("web_url", text)
    IN  IF IsRaise(self) THEN self
        ELSE [class |-> "URLButton", url |-> url] @@ self

\* PostbackButton.__init__, buttons.py:57-60.
PostbackButton(text, payload) ==
    LET self == Button_init("postback", text)
    IN  IF IsRaise(self) THEN self
        ELSE [class |-> "PostbackButton", payload |-> payload] @@ self

\* CallButton.__init__, buttons.py:99-102.
CallButton(text, phone_number) ==
    LET self == Button_init("phone_number", text)
    IN  IF IsRaise(self) THEN self
        ELSE [class |-> "CallButton", phone_number |-> phone_number] @@ self

\* to_json of URLButton, PostbackButton and CallButton, buttons.py:36-45,
\* 62-71 and 104-113.
Button_to_json(self) ==
    CASE self.class = "URLButton" ->
            [type |-> self.button_type, title |-> self.text, url |-> self.url]
      [] self.class = "PostbackButton" ->
            [type |-> self.button_type, title |-> self.text,
             payload |-> self.payload]
      [] self.class = "CallButton" ->
            [type |-> self.button_type, title |-> self.text,
             payload |-> self.phone_number]

\* QuickReply.__init__ that lets a location button carry attributes.
QuickReply_lenient(button_type, text, payload, image_url) ==
    IF button_type \notin {"text", "location"}
    THEN Raise("BoomerangException")
    ELSE IF button_type = "text"
    THEN IF text = None \/ payload = None
         THEN Raise("BoomerangException")
         ELSE [class |-> "QuickReply", button_type |-> button_type,
               text |-> text, payload |-> payload, image_url |-> image_url]
    ELSE [class |-> "QuickReply", button_type |-> button_type]

\* QuickReply.__init__, buttons.py:132-158.
QuickReply(button_type, text, payload, image_url) ==
    IF button_type \notin {"text", "location"}
    THEN Raise("BoomerangException")
    ELSE IF button_type = "text"
    THEN IF text = None \/ payload = None
         THEN Raise("BoomerangException")
         ELSE [class |-> "QuickReply", button_type |-> button_type,
               text |-> text, payload |-> payload, image_url |-> image_url]
    ELSE IF \E attr \in {text, payload, image_url} : attr # None
         THEN Raise("BoomerangException")
         ELSE [class |-> "QuickReply", button_type |-> button_type]

\* QuickReply.to_json, buttons.py:160-177.
QuickReply_to_json(button) ==
    IF button.button_type = "text"
    THEN LET json == [content_type |-> button.button_type,
                      title |-> button.text, payload |-> button.payload]
         IN  IF button.image_url # None
             THEN [k \in DOMAIN json \cup {"image_url"} |->
                      IF k = "image_url" THEN button.image_url ELSE json[k]]
             ELSE json
    ELSE [content_type |-> button.button_type]

-----------------------------------------------------------------------------
(* The /webhook route, src/boomerang/server.py.                            *)

\* The token given to Messenger(verify_token, page_token), server.py:26.
verify_token == "dummy_verify_token"

ForbiddenText == "Verification token did not match server"

text(body, status) == [status |-> status, body |-> body]

\* register that hands the challenge to any subscriber.
register_unverified(req) ==
    IF req.args["hub.mode"][1] = "subscribe"
    THEN text(req.args["hub.challenge"][1], 200)
    ELSE None

\* Messenger.register, server.py:88-99.  A mode other than 'subscribe'
\* falls off the end of the function, which returns None.
register(req) ==
    LET request_type == req.args["hub.mode"][1]
        request_verify_token == req.args["hub.verify_token"][1]
        request_challenge == req.args["hub.challenge"][1]
        is_verified == (request_verify_token = verify_token)
    IN  IF request_type = "subscribe"
        THEN IF is_verified
             THEN text(request_challenge, 200)
             ELSE text(ForbiddenText, 403)
        ELSE None

\* message_types with 'postback' probed after 'referral'.
message_types_misordered ==
    << [identifier |-> "message", message_class |-> "MessageReceived",
        handler |-> "message_received"],
       [identifier |-> "delivery", message_class |-> "MessageDelivered",
        handler |-> "message_delivered"],
       [identifier |-> "read", message_class |-> "MessageRead",
        handler |-> "message_read"],
       [identifier |-> "referral", message_class |-> "Referral",
        handler |-> "referral"],
       [identifier |-> "postback", message_class |-> "Postback",
        handler |-> "postback"],
       [identifier |-> "optin", message_class |-> "OptIn",
        handler |-> "opt_in"],
       [identifier |-> "account_linking", message_class |-> "AccountLink",
        handler |-> "account_link"] >>

\* message_types, server.py:130-143, in the order the for-loop probes them.
message_types ==
    << [identifier |-> "message", message_class |-> "MessageReceived",
        handler |-> "message_received"],
       [identifier |-> "delivery", message_class |-> "MessageDelivered",
        handler |-> "message_delivered"],
       [identifier |-> "read", message_class |-> "MessageRead",
        handler |-> "message_read"],
       [identifier |-> "postback", message_class |-> "Postback",
        handler |-> "postback"],
       [identifier |-> "referral", message_class |-> "Referral",
        handler |-> "referral"],
       [identifier |-> "optin", message_class |-> "OptIn",
        handler |-> "opt_in"],
       [identifier |-> "account_linking", message_class |-> "AccountLink",
        handler |-> "account_link"] >>

Identifiers == {message_types[i].identifier : i \in 1..Len(message_types)}

\* The for-loop that decodes the payload before it looks for 'is_echo'.
RECURSIVE ProbeFrom_decoding(_, _, _, _)
ProbeFrom_decoding(message, user_id, timestamp, i) ==
    IF i > Len(message_types) THEN [outcome |-> "skip"]
    ELSE LET message_type == message_types[i]
             identifier == message_type.identifier
         IN  IF identifier \in DOMAIN message
             THEN LET decoded == from_json(message_type.message_class,
                                           user_id, timestamp,
                                           message[identifier])
                  IN  IF IsRaise(decoded)
                      THEN [outcome |-> "raise",
                            exception |-> decoded.exception]
                      ELSE IF "is_echo" \notin DOMAIN message[identifier]
                      THEN [outcome |-> "dispatch",
                            handler |-> message_type.handler,
                            decoded |-> decoded]
                      ELSE ProbeFrom_decoding(message, user_id, timestamp,
                                              i + 1)
             ELSE ProbeFrom_decoding(message, user_id, timestamp, i + 1)

\* The for-loop over message_types, server.py:148-159, from its i-th item.
\* An identifier that is absent, or whose payload holds 'is_echo', lets the
\* loop run on to the next item; the break sits with the handler call.
RECURSIVE ProbeFrom(_, _, _, _)
ProbeFrom(message, user_id, timestamp, i) ==
    IF i > Len(message_types) THEN [outcome |-> "skip"]
    ELSE LET message_type == message_types[i]
             identifier == message_type.identifier
         IN  IF identifier \in DOMAIN message
             THEN IF "is_echo" \notin DOMAIN message[identifier]
                  THEN LET decoded == from_json(message_type.message_class,
                                                user_id, timestamp,
                                                message[identifier])
                       IN  IF IsRaise(decoded)
                           THEN [outcome |-> "raise",
                                 exception |-> decoded.exception]
                           ELSE [outcome |-> "dispatch",
                                 handler |-> message_type.handler,
                                 decoded |-> decoded]
                  ELSE ProbeFrom(message, user_id, timestamp, i + 1)
             ELSE ProbeFrom(message, user_id, timestamp, i + 1)

\* An examination that takes an envelope of no recognised key for an error.
Examine_strict(message) ==
    IF "sender" \notin DOMAIN message \/ "id" \notin DOMAIN message.sender
    THEN [outcome |-> "raise", exception |-> "KeyError"]
    ELSE LET user_id == int(message.sender.id)
         IN  IF IsRaise(user_id)
             THEN [outcome |-> "raise", exception |-> user_id.exception]
             ELSE IF "timestamp" \notin DOMAIN message
             THEN [outcome |-> "raise", exception |-> "KeyError"]
             ELSE IF DOMAIN message \cap Identifiers = {}
             THEN [outcome |-> "raise", exception |-> "KeyError"]
             ELSE ProbeFrom(message, user_id.value, message.timestamp, 1)

\* The body of the inner for-loop up to the handler call, server.py:124-156.
Examine(message) ==
    IF "sender" \notin DOMAIN message \/ "id" \notin DOMAIN message.sender
    THEN [outcome |-> "raise", exception |-> "KeyError"]
    ELSE LET user_id == int(message.sender.id)
         IN  IF IsRaise(user_id)
             THEN [outcome |-> "raise", exception |-> user_id.exception]
             ELSE IF "timestamp" \notin DOMAIN message
             THEN [outcome |-> "raise", exception |-> "KeyError"]
             ELSE ProbeFrom(message, user_id.value, message.timestamp, 1)

-----------------------------------------------------------------------------
(* The outbound client, src/boomerang/server.py.                           *)

Return(v) == [value |-> v]

\* messages.MediaAttachment(media_type, url), messages.py:109-111.
messages_MediaAttachment(media_type, url) ==
    [class |-> "messages.MediaAttachment", media_type |-> media_type,
     url |-> url]

\* MediaAttachment.to_json of the messages module.
MediaAttachment_to_json(attachment) ==
    [type |-> attachment.media_type, payload |-> [url |-> attachment.url]]

\* Message(text=None, attachment=None, quick_replies=None) of the messages
\* module, called with the keyword arguments kwargs: a message needs a text
\* or an attachment.  A Message object is the record of its attributes that
\* are not None, with its list of quick replies.
Message(kwargs) ==
    IF "text" \notin DOMAIN kwargs /\ "attachment" \notin DOMAIN kwargs
    THEN Raise("BoomerangException")
    ELSE [k \in (DOMAIN kwargs \cap {"text", "attachment"})
                   \cup {"quick_replies"} |->
             IF k \in DOMAIN kwargs THEN kwargs[k] ELSE << >>]

\* Message.to_json with a 'quick_replies' key whatever the list.
Message_to_json_listed(message) ==
    [k \in {a \in {"text", "attachment"} : a \in DOMAIN message}
           \cup {"quick_replies"}
       |-> CASE k = "quick_replies" ->
                  [i \in 1..Len(message.quick_replies) |->
                      QuickReply_to_json(message.quick_replies[i])]
             [] k = "attachment" -> MediaAttachment_to_json(message.attachment)
             [] OTHER -> message[k]]

\* Message.to_json of the messages module: the key 'text' is present iff
\* the text is set, 'attachment' (the attachment's to_json) iff the
\* attachment is set, 'quick_replies' (each quick reply's to_json, in
\* order) iff the list is non-empty.
Message_to_json(message) ==
    [k \in {a \in {"text", "attachment"} : a \in DOMAIN message}
           \cup {a \in {"quick_replies"} : Len(message.quick_replies) > 0}
       |-> CASE k = "quick_replies" ->
                  [i \in 1..Len(message.quick_replies) |->
                      QuickReply_to_json(message.quick_replies[i])]
             [] k = "attachment" -> MediaAttachment_to_json(message.attachment)
             [] OTHER -> message[k]]

\* Element(title, image_url=None) of the messages module, as far as a list
\* template looks at it.
Element(title, image_url) ==
    [class |-> "Element", title |-> title, image_url |-> image_url]

\* ListTemplate that accepts any first element.
ListTemplate_unstyled(elements, button, compact) ==
    IF Len(elements) < 2 \/ Len(elements) > 4
    THEN Raise("BoomerangException")
    ELSE [class |-> "ListTemplate", elements |-> elements,
          button |-> button, compact |-> compact]

\* ListTemplate(elements, button=None, compact=True) of the messages
\* module: two to four elements, and the first element of a list that is
\* not compact carries an image.
ListTemplate(elements, button, compact) ==
    IF Len(elements) < 2 \/ Len(elements) > 4
    THEN Raise("BoomerangException")
    ELSE IF ~compact /\ elements[1].image_url = None
    THEN Raise("BoomerangException")
    ELSE [class |-> "ListTemplate", elements |-> elements,
          button |-> button, compact |-> compact]

\* The values a handler may return.  A str is the Str of its characters, a
\* list or a tuple the record of its class and its items.
IsStr(object) == "str" \in DOMAIN object

IsList(object) ==
    "items" \in DOMAIN object /\ object.class \in {"list", "tuple"}

\* What iterating over the object yields: the items of a list or tuple, the
\* characters of a str.
Items(object) ==
    IF IsStr(object)
    THEN [i \in 1..Len(object.str) |-> Str(<< object.str[i] >>)]
    ELSE object.items

\* is_sequence that takes every iterable for a sequence.
is_sequence_iterable(object) == IsList(object) \/ IsStr(object)

\* Messenger.is_sequence: lists and tuples are sequences, a str is not.
is_sequence(object) == IsList(object) /\ ~IsStr(object)

\* The normalisation that sends a returned sequence as one value.
Replies_whole(returned) ==
    IF returned = None THEN << >> ELSE << returned >>

\* The values handle_event sends for what a handler returned: nothing for
\* None, each item of a sequence in order, the value itself otherwise.
Replies(returned) ==
    IF returned = None THEN << >>
    ELSE IF is_sequence(returned) THEN Items(returned)
    ELSE << returned >>

\* Messenger.send(recipient_id, item) as the message it hands to
\* send_message: a str is wrapped into a text Message, an attachment into
\* a Message with that attachment, a Message is sent as it is.
send(recipient_id, item) ==
    [recipient_id |-> recipient_id,
     item |-> item,
     message |-> IF IsStr(item) THEN Message([text |-> item])
                 ELSE IF "quick_replies" \in DOMAIN item THEN item
                 ELSE Message([attachment |-> item])]

\* Messenger.handle_api_error, server.py:178-183.  The formatted text
\* '{0} ({1}): {2}' is kept as the triple of its three arguments.
handle_api_error(error_json) ==
    IF "error" \notin DOMAIN error_json THEN Raise("KeyError")
    ELSE LET error_payload == error_json.error
         IN  IF \/ "code" \notin DOMAIN error_payload
                \/ "error_subcode" \notin DOMAIN error_payload
                \/ "message" \notin DOMAIN error_payload
             THEN Raise("KeyError")
             ELSE [exception |-> "MessengerAPIException",
                   error_message |-> <<error_payload.code,
                                       error_payload.error_subcode,
                                       error_payload.message>>]

\* One call of Messenger.post, server.py:185-209, as the request it makes.
Post(data, api_endpoint) == [api_endpoint |-> api_endpoint, data |-> data]

\* The body Messenger.send builds, server.py:236-237.
SendBody(recipient_id, message) ==
    [recipient |-> [id |-> recipient_id], message |-> Message_to_json(message)]

\* The body Messenger.send_action builds, server.py:265-266.
ActionBody(recipient_id, action) ==
    [recipient |-> [id |-> recipient_id], sender_action |-> action]

\* A response without 'message_id' taken for a success.
AfterPost_swallowed(api_response) ==
    IF "message_id" \in DOMAIN api_response
    THEN Return(api_response.message_id)
    ELSE Return(None)

\* What Messenger.send and Messenger.send_action do with the response of
\* their POST, server.py:242-245 and 271-274.
AfterPost(api_response) ==
    IF "message_id" \in DOMAIN api_response
    THEN Return(api_response.message_id)
    ELSE handle_api_error(api_response)

\* The check of the action left out.
ValidActions_unchecked ==
    {"typing_on", "typing_off", "mark_seen", "invalid_action"}

ValidActions == {"typing_on", "typing_off", "mark_seen"}

\* The token given to Messenger(verify_token, page_token), server.py:27.
page_token == "dummy_page_token"

\* One call of Messenger.get, server.py:211-222, as the request it makes.
Get(url) == [method |-> "GET", url |-> url]

\* The URL Messenger.get_user_information asks, server.py:416-419.
UserUrl(user_id) ==
    concat(concat(concat(Str(<<"https://graph.facebook.com/v2.6/">>),
                         str(user_id)),
                  Str(<<"?access_token=">>)),
           Str(<< page_token >>))

\* get_user_information that hands on the names only.
AfterGet_names(api_response, user_id) ==
    IF Cardinality(DOMAIN api_response) = 0
    THEN [exception |-> "MessengerAPIException",
          error_message |->
             concat(Str(<<"The app doesn't have permission to query user with ID: ">>),
                    str(user_id))]
    ELSE Return([k \in DOMAIN api_response \cap {"first_name", "last_name"}
                    |-> api_response[k]])

\* What Messenger.get_user_information does with the response of its GET,
\* server.py:425-431.
AfterGet(api_response, user_id) ==
    IF Cardinality(DOMAIN api_response) = 0
    THEN [exception |-> "MessengerAPIException",
          error_message |->
             concat(Str(<<"The app doesn't have permission to query user with ID: ">>),
                    str(user_id))]
    ELSE Return(api_response)

\* The parameters of Messenger.set_thread_settings, server.py:343-347.
SettingsParameters ==
    {"account_link_url", "whitelisted_domains", "get_started_payload",
     "greeting_text", "menu_buttons"}

\* The call binds each keyword argument to its parameter; a parameter no
\* argument was given for is None.  kwargs is the list of <<name, value>>
\* in the order the call writes them.
IsGiven(kwargs, name) == \E i \in 1..Len(kwargs) : kwargs[i][1] = name

Argument(kwargs, name) ==
    kwargs[CHOOSE i \in 1..Len(kwargs) : kwargs[i][1] = name][2]

\* The request set_thread_settings queues for one parameter that is not
\* None, server.py:371-393.
SettingsRequest(name, value) ==
    CASE name = "account_link_url" ->
            [setting_type |-> "account_linking",
             account_linking_url |-> value]
      [] name = "whitelisted_domains" ->
            [setting_type |-> "domain_whitelisting",
             domain_action_type |-> "add",
             whitelisted_domains |-> value]
      [] name = "get_started_payload" ->
            [setting_type |-> "call_to_actions",
             thread_state |-> "new_thread",
             call_to_actions |-> << [payload |-> value] >>]
      [] name = "greeting_text" ->
            [setting_type |-> "greeting", greeting |-> [text |-> value]]
      [] name = "menu_buttons" ->
            [setting_type |-> "call_to_actions",
             thread_state |-> "existing_thread",
             call_to_actions |->
                 [i \in 1..Len(value) |-> Button_to_json(value[i])]]

\* A queue filled in the order the call writes its arguments.
BuildQueue_as_given(kwargs) ==
    [i \in 1..Len(kwargs) |-> SettingsRequest(kwargs[i][1], kwargs[i][2])]

\* The queue set_thread_settings fills, server.py:368-393: one `if' per
\* parameter, in the order of the code.
BuildQueue(kwargs) ==
    LET queued(name) == IF IsGiven(kwargs, name)
                        THEN << SettingsRequest(name, Argument(kwargs, name)) >>
                        ELSE <<>>
    IN  queued("account_link_url") \o queued("whitelisted_domains")
        \o queued("get_started_payload") \o queued("greeting_text")
        \o queued("menu_buttons")

\* A loop that goes on to the next request whatever the answer was, and
\* reports the error only at the end.
AfterSettingsPost_late(api_response, more) ==
    IF more THEN [continue |-> TRUE]
    ELSE IF "result" \notin DOMAIN api_response
    THEN handle_api_error(api_response)
    ELSE Return(None)

\* What set_thread_settings does with the answer to one of its POSTs,
\* server.py:397-403: an answer without 'result' raises; otherwise the loop
\* goes on while the queue has more requests, and the call returns None
\* after the last.
AfterSettingsPost(api_response, more) ==
    IF "result" \notin DOMAIN api_response
    THEN handle_api_error(api_response)
    ELSE IF more THEN [continue |-> TRUE]
    ELSE Return(None)

-----------------------------------------------------------------------------
(* Attachment hosting, src/boomerang/server.py.                            *)

\* hashlib.sha256(bytes(filename, 'utf-8')).hexdigest(), server.py:331-332,
\* on the filenames of the model.
sha256(filename) ==
    CASE filename = "image.png" ->
            "4ee84a82b5e4c9e6651b13fd27dcf615e427ec584929f2cef7167aa99151a77a"
      [] filename = "audio.mp3" ->
            "9b52714fe42fe463ce602ae72e77dfcd6b4e16bc02ea4812f5432e8e09ff55c0"
      [] filename = "video.mp4" ->
            "5a44db20c2ccb60c7c30cd1ce2af84831718584d26a22a09ae3b479c19bea5d5"
      [] filename = "file.pdf" ->
            "a990c629488863614b4c078b9abc4c2abb2bee83e2d691fed6b1e5674b2a5b8b"

\* A table that never finds the filename.
IsHosted_forgotten(filename, table) == filename \in {}

\* `filename in self._attachments', server.py:325.
IsHosted(filename, table) == filename \in DOMAIN table

\* host_attachment that serves the file before it looks at the base URL.
host_attachment_eager(media_type, filename, base, table) ==
    LET fresh == ~IsHosted(filename, table)
        relative_url == Str(<<"/", sha256(filename)>>)
        after == IF fresh THEN table @@ (filename :> relative_url) ELSE table
        served == IF fresh THEN << <<after[filename], filename>> >> ELSE <<>>
    IN  IF base = Unset
        THEN [result |-> Raise("AttributeError"), table |-> after,
              served |-> served]
        ELSE IF base = None
        THEN [result |-> Raise("BoomerangException"), table |-> after,
              served |-> served]
        ELSE [result |-> Return(messages_MediaAttachment(
                                    media_type, concat(base, after[filename]))),
              table |-> after, served |-> served]

\* Messenger.host_attachment, server.py:321-341, on the base URL and the
\* table of the bot: what it returns or raises, the table it leaves, and
\* the calls of self._server.static(url, filename) it makes.
host_attachment(media_type, filename, base, table) ==
    IF base = Unset
    THEN [result |-> Raise("AttributeError"), table |-> table, served |-> <<>>]
    ELSE IF base = None
    THEN [result |-> Raise("BoomerangException"), table |-> table,
          served |-> <<>>]
    ELSE LET fresh == ~IsHosted(filename, table)
             identifier == sha256(filename)
             after == IF fresh
                      THEN table @@ (filename :> concat(Str(<<"/">>),
                                                        Str(<<identifier>>)))
                      ELSE table
             served == IF fresh THEN << <<after[filename], filename>> >>
                       ELSE <<>>
             relative_url == after[filename]
             full_url == concat(base, relative_url)
         IN  [result |-> Return(messages_MediaAttachment(media_type, full_url)),
              table |-> after, served |-> served]

-----------------------------------------------------------------------------
(* Inputs.                                                                 *)

Restrict(f, S) == [k \in S |-> f[k]]

\* A payload of each event type as the platform sends it.
WellFormed(identifier) ==
    CASE identifier = "message" -> [mid |-> "m1", seq |-> 1, text |-> "ping"]
      [] identifier = "delivery" ->
            [mids |-> <<"m1">>, watermark |-> 5, seq |-> 2]
      [] identifier = "read" -> [watermark |-> 5, seq |-> 3]
      [] identifier = "postback" -> [payload |-> "GO"]
      [] identifier = "referral" -> [ref |-> "ad"]
      [] identifier = "optin" -> [ref |-> "opt"]
      [] identifier = "account_linking" ->
            [status |-> "linked", authorization_code |-> "code"]

\* A field the decoding of each event type cannot do without.
NeededField(identifier) ==
    CASE identifier = "message" -> "seq"
      [] identifier = "delivery" -> "watermark"
      [] identifier = "read" -> "seq"
      [] identifier = "postback" -> "payload"
      [] identifier = "referral" -> "ref"
      [] identifier = "optin" -> "ref"
      [] identifier = "account_linking" -> "authorization_code"

PayloadShapes == {"well_formed", "echo", "bare_echo", "truncated"}

SamplePayload(identifier, shape) ==
    CASE shape = "well_formed" -> WellFormed(identifier)
      [] shape = "echo" -> [is_echo |-> TRUE] @@ WellFormed(identifier)
      [] shape = "bare_echo" -> [is_echo |-> TRUE]
      [] shape = "truncated" ->
            Restrict(WellFormed(identifier),
                     DOMAIN WellFormed(identifier) \ {NeededField(identifier)})

GoodHeader == [sender |-> [id |-> <<"1", "2">>], timestamp |-> 5]

Headers ==
    { GoodHeader,
      [sender |-> [id |-> <<"0", "7">>], timestamp |-> 6],
      [sender |-> [id |-> <<"x">>], timestamp |-> 5],
      [timestamp |-> 5],
      [sender |-> [id |-> <<"1", "2">>]] }

Body(K, shapes) == [k \in K |-> SamplePayload(k, shapes[k])]

KeySets == {K \in SUBSET Identifiers : Cardinality(K) <= MaxKeys}

\* An envelope of the recognised keys K, at most MaxKeys of them.
Envelope(header, K, shapes) == header @@ Body(K, shapes)

\* The envelopes batched payloads are built from: a message in every
\* shape, every other event well formed, an envelope of no recognised key,
\* an echoed message that comes with a delivery, and a message without
\* sender.
BatchEnvelopes ==
    { Envelope(GoodHeader, {"message"}, [k \in {"message"} |-> shape])
        : shape \in PayloadShapes }
    \cup { Envelope(GoodHeader, {k}, [j \in {k} |-> "well_formed"])
             : k \in Identifiers \ {"message"} }
    \cup { GoodHeader,
           Envelope(GoodHeader, {"message", "delivery"},
                    [message |-> "echo", delivery |-> "well_formed"]),
           Envelope([timestamp |-> 5], {"message"},
                    [message |-> "well_formed"]) }

RECURSIVE Sum(_)
Sum(s) == IF Len(s) = 0 THEN 0 ELSE s[1] + Sum(Tail(s))

\* The entries that cut the flat sequence of envelopes into lists of the
\* given sizes.
Cut(flat, sizes) ==
    [i \in 1..Len(sizes) |->
        [messaging |-> SubSeq(flat, Sum(SubSeq(sizes, 1, i - 1)) + 1,
                              Sum(SubSeq(sizes, 1, i)))]]

\* The ways to spread m envelopes over n entries.
Cuts(n, m) == {sizes \in [1..n -> 0..m] : Sum(sizes) = m}

PostRequest(entries) == [method |-> "POST", json |-> [entry |-> entries]]

GetRequests ==
    { [method |-> "GET",
       args |-> [k \in {"hub.mode", "hub.verify_token", "hub.challenge"} |->
                    IF k = "hub.mode" THEN <<mode>>
                    ELSE IF k = "hub.verify_token" THEN <<token>>
                    ELSE <<challenge>>]]
      : mode \in {"subscribe", "unsubscribe"},
        token \in {verify_token, "wrong_verify_token", "dummy_challenge"},
        challenge \in {"dummy_challenge", "1158201444"} }

\* What the Graph API may answer to a POST.
ApiResponses ==
    { [recipient_id |-> 123, message_id |-> "dummy_message_id"],
      [recipient_id |-> 123],
      [error |-> [message |-> "Too many send requests to phone numbers",
                  type |-> "OAuthException", code |-> 4,
                  error_subcode |-> 2018022, fbtrace_id |-> "BLBaaaaaaa"]],
      [error |-> [message |-> "Invalid OAuth access token.",
                  type |-> "OAuthException", code |-> 190,
                  fbtrace_id |-> "BLBaaaaaaa"]] }

RecipientIds == {12, 123}

\* The quick replies given to messages, src/tests/test_messages.py:117-136.
QuickReplies ==
    { QuickReply("text", Str(<<"B", "u", "t", "t", "o", "n">>),
                 Str(<<"button_pressed">>), Str(<<"http://www.google.com">>)),
      QuickReply("text", Str(<<"B", "u", "t", "t", "o", "n">>),
                 Str(<<"button_pressed">>), None),
      QuickReply("location", None, None, None) }

QuickReplyLists ==
    UNION { [1..n -> QuickReplies] : n \in 0..MaxQuickReplies }

\* The keyword arguments given to Message, src/tests/test_messages.py:13-39
\* and 117-136: each of text, attachment and quick_replies given or not.
MessageArguments ==
    UNION { { Restrict([text |-> "dummy_text",
                        attachment |-> messages_MediaAttachment(
                                          "image", "http://www.google.com"),
                        quick_replies |-> quick_replies], K)
                : quick_replies \in QuickReplyLists }
            : K \in SUBSET {"text", "attachment", "quick_replies"} }

\* The single values a handler returns, src/tests/test_server.py:620-675:
\* a string, a Message, an attachment.
ReplyItems ==
    { Str(<<"p", "o", "n", "g">>),
      Message([text |-> Str(<<"d", "u", "m", "m", "y">>),
               quick_replies |-> << QuickReply("location", None, None, None) >>]),
      messages_MediaAttachment("image", "http://www.google.com") }

\* The items of returned sequences.
SequenceItems ==
    { Str(<<"p", "o", "n", "g">>),
      messages_MediaAttachment("image", "http://www.google.com") }

\* What a handler returns: nothing, one value, or a list or tuple of up to
\* MaxReplies values.
Returns ==
    {None} \cup ReplyItems
           \cup { [class |-> c, items |-> items] :
                    c \in {"list", "tuple"},
                    items \in UNION { [1..n -> SequenceItems] :
                                        n \in 0..MaxReplies } }

\* What the handlers registered after the first return.
LaterReturns ==
    { None, Str(<<"p", "o", "n", "g">>),
      [class |-> "list", items |-> << Str(<<"h", "i">>), Str(<<"h", "i">>) >>] }

\* The event types of the handler tests.
EventTypes == {"message_received", "postback"}

\* The lists of handlers registered for one event type, each handler given
\* by what it returns, in registration order.
HandlerLists ==
    { << >> } \cup
    UNION { { [i \in 1..n |-> IF i = 1 THEN first ELSE later[i - 1]] :
                first \in Returns, later \in [1..(n - 1) -> LaterReturns] }
            : n \in 1..MaxHandlers }

\* The handler tables: the handlers of message_received, with one handler
\* or none registered for postback.
HandlerTables ==
    { [message_received |-> handlers, postback |-> others] :
        handlers \in HandlerLists,
        others \in { << >>, << Str(<<"p", "o", "n", "g">>) >> } }

\* The users whose profile is asked for, src/tests/test_server.py:496-544.
ProfileIds == {7, 12345}

\* What the Graph API may answer to the GET of a user profile,
\* src/tests/test_server.py:496-544: the profile, part of it, an error
\* object, or the empty object.
ProfileResponses ==
    { [profile_pic |-> "https://www.google.com", gender |-> "male",
       locale |-> "en_GB", first_name |-> "Busta", last_name |-> "Rhymes",
       timezone |-> 0],
      [first_name |-> "Busta", last_name |-> "Rhymes"],
      [first_name |-> "Busta"],
      [error |-> [message |-> "Invalid OAuth access token.",
                  type |-> "OAuthException", code |-> 190,
                  fbtrace_id |-> "BLBaaaaaaa"]],
      EmptyDict }

\* The elements given to list templates, src/tests/test_messages.py:139-164:
\* one with an image and one without.
Elements ==
    { Element("Element", Str(<<"https://i.imgur.com/MBUyt0n.png">>)),
      Element("Element", None) }

ElementLists == UNION { [1..n -> Elements] : n \in 0..MaxElements }

\* The trailing button of a list template: none, or the URL button of
\* src/tests/test_messages.py:142.
TemplateButtons ==
    { None, URLButton(Str(<<"G", "o", "o", "g", "l", "e">>),
                      "http://www.google.com") }

Messages ==
    { Message([text |-> "dummy_text"]),
      Message([text |-> "pick",
               quick_replies |-> << QuickReply("location", None, None, None) >>]),
      Message([attachment |->
                  messages_MediaAttachment("image", "http://x/i.png")]) }

Actions == ValidActions \cup {"invalid_action"}

\* The reply a replying handler sends back.
Reply == [text |-> "pong", quick_replies |-> <<>>]

\* The value each argument of set_thread_settings is given, as in
\* src/tests/test_server.py:462-469.
SettingsValue(name) ==
    CASE name = "account_link_url" -> "https://cadelwatson.com"
      [] name = "whitelisted_domains" -> << "https://google.com" >>
      [] name = "get_started_payload" -> "payload"
      [] name = "greeting_text" -> "hi there"
      [] name = "menu_buttons" ->
            << URLButton(Str(<<"G", "o", "o", "g", "l", "e">>),
                         "http://www.google.com"),
               PostbackButton(Str(<<"H", "i", "t", " ", "m", "e">>),
                              "mmmmmm") >>

\* The ways to write a call of set_thread_settings: some of the keyword
\* arguments, in some order.
SettingsCalls ==
    UNION { { [i \in 1..n |-> <<names[i], SettingsValue(names[i])>>]
              : names \in { f \in [1..n -> SettingsParameters] :
                              \A i, j \in 1..n : i # j => f[i] # f[j] } }
            : n \in 0..Cardinality(SettingsParameters) }

\* The media types of host_attachment, server.py:312-313.
MediaTypes == {"image", "audio", "video", "file"}

FileNames == <<"image.png", "audio.mp3", "video.mp4", "file.pdf">>

\* The files the application hosts, at most MaxFiles of them.
HostedFiles == {FileNames[i] : i \in 1..MaxFiles}

\* The base_url given to run(), server.py:50 and 68: None by default, or
\* the public URL of the bot.
BaseUrls == {None, Str(<<"http://base.com">>)}

\* The texts given to buttons: one of each length up to MaxTextLen.
Texts ==
    { Str([i \in 1..n |-> IF i % 2 = 1 THEN "a" ELSE "b"]) : n \in 0..MaxTextLen }

\* The button classes whose constructor takes a text, each with the other
\* argument it is given.
ButtonArgument ==
    [URLButton |-> "http://www.google.com", PostbackButton |-> "mmmmmm",
     CallButton |-> "+61400000000"]

\* The arguments given to QuickReply, src/tests/test_messages.py:97-114.
QuickReplyTypes == {"text", "location", "image"}

QuickReplyPayloads == {None, Str(<<"p">>)}

QuickReplyImages == {None, Str(<<"http://x/i.png">>)}

\* The users and times events are decoded for.
UserIds == {12, 7}

Timestamps == {5}

\* The JSON of account_linking events, src/tests/test_events.py:196-234:
\* status linked, unlinked or missing, with an authorization code or none.
\* The code is kept as a Str so that it can be told from None.
AccountLinkJsons ==
    { Restrict([status |-> status, authorization_code |-> Str(<<"X">>)], K)
        : status \in {"linked", "unlinked"},
          K \in SUBSET {"status", "authorization_code"} }

\* The attachments of received messages, src/tests/test_events.py:31-56
\* and 255-275: media of two types, a location, and a location that comes
\* with the payload of a media attachment.
AttachmentJsons ==
    { [type |-> "image", payload |-> [url |-> "http://x/i.png"]],
      [type |-> "fallback", payload |-> [url |-> "http://x/f"]],
      [type |-> "location",
       payload |-> [coordinates |-> [lat |-> 37, long |-> -122]]],
      [type |-> "location", payload |-> [url |-> "http://x/l"]] }

AttachmentLists ==
    UNION { [1..n -> AttachmentJsons] : n \in 0..MaxAttachments }

\* The quick_reply of received messages: with its payload, and without.
QuickReplyJsons == { [payload |-> "QR"], EmptyDict }

\* The JSON of message events: every subset of the keys mid, seq and text,
\* with attachments or none, with a quick_reply or none.
MessageJsons ==
    { Restrict([mid |-> "m1", seq |-> 5, text |-> "hi"], K) @@ extra
        : K \in SUBSET {"mid", "seq", "text"},
          extra \in {EmptyDict}
                    \cup { [attachments |-> list] : list \in AttachmentLists }
                    \cup { [quick_reply |-> q] : q \in QuickReplyJsons }
                    \cup { [attachments |-> list, quick_reply |-> q]
                             : list \in AttachmentLists,
                               q \in QuickReplyJsons } }

\* The coordinates of location attachments (whole degrees).
Coordinates == {-77, 0, 38}

\* The JSON of location attachments, src/tests/test_events.py:266-274:
\* every pair of coordinates, and the same without one of the two.
LocationJsons ==
    { [title |-> "Someone's Location", type |-> "location",
       payload |-> [coordinates |-> Restrict([lat |-> lat, long |-> long], K)]]
        : lat \in Coordinates, long \in Coordinates,
          K \in {{"lat", "long"}, {"lat"}, {"long"}} }

\* What the Graph API may answer to a POST to thread_settings.
SettingsResponses ==
    { [result |-> "success"],
      [error |-> [message |-> "Too many send requests to phone numbers",
                  type |-> "OAuthException", code |-> 4,
                  error_subcode |-> 2018022, fbtrace_id |-> "BLBaaaaaaa"]],
      [error |-> [message |-> "Invalid OAuth access token.",
                  type |-> "OAuthException", code |-> 190,
                  fbtrace_id |-> "BLBaaaaaaa"]] }

-----------------------------------------------------------------------------
(* The state machine.  One request or call is served at a time; the awaits *)
(* of the code (a handler, a POST) are the points where an action ends.    *)

Pending == [pending |-> TRUE]

NoRequest == [method |-> "none"]

Init ==
    /\ pc = "idle"
    /\ request = NoRequest
    /\ entryIdx = 0
    /\ event = None
    /\ messaging = <<>>
    /\ msgIdx = 0
    /\ awaiting = None
    /\ visited = <<>>
    /\ calls = <<>>
    /\ posts = <<>>
    /\ answers = <<>>
    /\ response = Pending
    /\ invocation = None
    /\ result = Pending
    /\ request_queue = <<>>
    /\ _base_url = Unset
    /\ _attachments = EmptyDict
    /\ static = <<>>
    /\ hosted = <<>>

\* webhook(request) with method GET, server.py:42-44.
WebhookGet(req) ==
    /\ pc = "idle"
    /\ request' = req
    /\ response' = register(req)
    /\ pc' = "done"
    /\ UNCHANGED <<entryIdx, event, messaging, msgIdx, awaiting, visited,
                   calls, posts, answers, invocation, result>>
    /\ UNCHANGED <<request_queue, hosting>>

\* webhook(request) with method POST enters handle_webhook, server.py:46-47
\* and 117: the iterator over request.json['entry'] is created.
WebhookPost(req) ==
    /\ pc = "idle"
    /\ request' = req
    /\ pc' = "loop"
    /\ UNCHANGED <<entryIdx, event, messaging, msgIdx, awaiting, visited,
                   calls, posts, answers, response, invocation, result>>
    /\ UNCHANGED <<request_queue, hosting>>

\* An inner loop that starts over once `event' has been rebound to a
\* decoded event.
NextIndex_rebound(i) == IF "messaging" \in DOMAIN event THEN i + 1 ELSE 1

\* The iterator of the inner for-loop hands out its next item.
NextIndex(i) == i + 1

\* The outer for-loop takes its next entry, server.py:117 and 120: `event'
\* is bound to it and the inner loop starts to iterate event['messaging'].
NextEntry ==
    /\ pc = "loop"
    /\ msgIdx >= Len(messaging)
    /\ entryIdx < Len(request.json.entry)
    /\ entryIdx' = entryIdx + 1
    /\ event' = request.json.entry[entryIdx + 1]
    /\ messaging' = event'.messaging
    /\ msgIdx' = 0
    /\ UNCHANGED <<pc, request, awaiting, visited, calls, posts, answers,
                   response, invocation, result>>
    /\ UNCHANGED <<request_queue, hosting>>

\* The inner for-loop takes its next envelope and runs its body up to the
\* await of the handler, server.py:120-158.  An exception leaves
\* handle_webhook; a decoded event rebinds `event' and its handler is called.
NextMessage ==
    /\ pc = "loop"
    /\ msgIdx < Len(messaging)
    /\ LET at == NextIndex(msgIdx)
           message == messaging[at]
           examined == Examine(message)
           call == [position |-> <<entryIdx, at>>,
                    handler |-> examined.handler,
                    event |-> examined.decoded,
                    outcome |-> "awaited"]
       IN  /\ msgIdx' = at
           /\ visited' = Append(visited, <<entryIdx, at>>)
           /\ CASE examined.outcome = "raise" ->
                     /\ response' = Raise(examined.exception)
                     /\ pc' = "done"
                     /\ UNCHANGED <<event, awaiting, calls>>
                [] examined.outcome = "skip" ->
                     UNCHANGED <<pc, response, event, awaiting, calls>>
                [] examined.outcome = "dispatch" ->
                     /\ event' = examined.decoded
                     /\ awaiting' = call
                     /\ calls' = Append(calls, call)
                     /\ pc' = "handler"
                     /\ UNCHANGED response
    /\ UNCHANGED <<request, entryIdx, messaging, posts, answers, invocation,
                   result>>
    /\ UNCHANGED <<request_queue, hosting>>

\* Both loops are exhausted: return response.text('Success', status=200),
\* server.py:161.
Respond ==
    /\ pc = "loop"
    /\ msgIdx >= Len(messaging)
    /\ entryIdx >= Len(request.json.entry)
    /\ response' = text("Success", 200)
    /\ pc' = "done"
    /\ UNCHANGED <<request, entryIdx, event, messaging, msgIdx, awaiting,
                   visited, calls, posts, answers, invocation, result>>
    /\ UNCHANGED <<request_queue, hosting>>

\* What the await of the handler gives handle_webhook, server.py:158-159:
\* a returned handler lets the loop break and go on to the next envelope,
\* a raised exception leaves handle_webhook.
AfterHandler(outcome) ==
    /\ awaiting' = None
    /\ IF IsRaise(outcome)
       THEN /\ response' = outcome
            /\ pc' = "done"
            /\ calls' = [calls EXCEPT ![Len(calls)].outcome = "raised"]
       ELSE /\ pc' = "loop"
            /\ calls' = [calls EXCEPT ![Len(calls)].outcome = "returned"]
            /\ UNCHANGED response

\* The awaited handler returns (the handlers of the class only print,
\* server.py:433-528).
HandlerReturn ==
    /\ pc = "handler"
    /\ AfterHandler(Return(None))
    /\ UNCHANGED <<request, entryIdx, event, messaging, msgIdx, visited,
                   posts, answers, invocation, result>>
    /\ UNCHANGED <<request_queue, hosting>>

\* An overriding handler raises.
HandlerRaise ==
    /\ pc = "handler"
    /\ AfterHandler(Raise("HandlerError"))
    /\ UNCHANGED <<request, entryIdx, event, messaging, msgIdx, visited,
                   posts, answers, invocation, result>>
    /\ UNCHANGED <<request_queue, hosting>>

\* An overriding handler replies with `await self.send(event.user_id, ...)'
\* and returns; an exception of send leaves the handler.
HandlerReply(api_response) ==
    /\ pc = "handler"
    /\ posts' = Append(posts,
                       Post(SendBody(awaiting.event.user_id, Reply), "messages"))
    /\ answers' = Append(answers, api_response)
    /\ AfterHandler(AfterPost(api_response))
    /\ UNCHANGED <<request, entryIdx, event, messaging, msgIdx, visited,
                   invocation, result>>
    /\ UNCHANGED <<request_queue, hosting>>

\* Messenger.send up to the await of its POST, server.py:236-240.
Send(recipient_id, message) ==
    /\ pc = "idle"
    /\ invocation' = [op |-> "send", recipient_id |-> recipient_id,
                      message |-> message]
    /\ posts' = Append(posts, Post(SendBody(recipient_id, message), "messages"))
    /\ pc' = "post"
    /\ UNCHANGED <<request, entryIdx, event, messaging, msgIdx, awaiting,
                   visited, calls, answers, response, result>>
    /\ UNCHANGED <<request_queue, hosting>>

\* Messenger.send_action up to the await of its POST, server.py:259-269.
SendAction(recipient_id, action) ==
    /\ pc = "idle"
    /\ invocation' = [op |-> "send_action", recipient_id |-> recipient_id,
                      action |-> action]
    /\ IF action \notin ValidActions
       THEN /\ result' = Raise("BoomerangException")
            /\ pc' = "returned"
            /\ UNCHANGED posts
       ELSE /\ posts' = Append(posts,
                               Post(ActionBody(recipient_id, action), "messages"))
            /\ pc' = "post"
            /\ UNCHANGED result
    /\ UNCHANGED <<request, entryIdx, event, messaging, msgIdx, awaiting,
                   visited, calls, answers, response>>
    /\ UNCHANGED <<request_queue, hosting>>

\* The POST of send or send_action is answered, server.py:242-245, 271-274.
PostAnswered(api_response) ==
    /\ pc = "post"
    /\ answers' = Append(answers, api_response)
    /\ result' = AfterPost(api_response)
    /\ pc' = "returned"
    /\ UNCHANGED <<request, entryIdx, event, messaging, msgIdx, awaiting,
                   visited, calls, posts, response, invocation>>
    /\ UNCHANGED <<request_queue, hosting>>

\* Messenger.acknowledge up to the await of the POST of its first
\* send_action, server.py:288 and 259-269.
Acknowledge(user_id) ==
    /\ pc = "idle"
    /\ invocation' = [op |-> "acknowledge", message |-> [user_id |-> user_id]]
    /\ posts' = Append(posts, Post(ActionBody(user_id, "mark_seen"), "messages"))
    /\ pc' = "acknowledge"
    /\ UNCHANGED <<request, entryIdx, event, messaging, msgIdx, awaiting,
                   visited, calls, answers, response, result>>
    /\ UNCHANGED <<request_queue, hosting>>

\* The POST of one of the two send_action calls of acknowledge is answered,
\* server.py:271-274 and 288-289: an exception of send_action leaves
\* acknowledge, the first message id is dropped and 'typing_on' is posted,
\* the second lets acknowledge return None.
AcknowledgeAnswered(api_response) ==
    /\ pc = "acknowledge"
    /\ answers' = Append(answers, api_response)
    /\ IF IsRaise(AfterPost(api_response))
       THEN /\ result' = AfterPost(api_response)
            /\ pc' = "returned"
            /\ UNCHANGED posts
       ELSE IF Len(answers) = 0
       THEN /\ posts' = Append(posts,
                               Post(ActionBody(invocation.message.user_id,
                                               "typing_on"), "messages"))
            /\ pc' = "acknowledge"
            /\ UNCHANGED result
       ELSE /\ result' = Return(None)
            /\ pc' = "returned"
            /\ UNCHANGED posts
    /\ UNCHANGED <<request, entryIdx, event, messaging, msgIdx, awaiting,
                   visited, calls, response, invocation>>
    /\ UNCHANGED <<request_queue, hosting>>

\* Messenger.get_user_information up to the await of its GET,
\* server.py:416-423.
GetUserInformation(user_id) ==
    /\ pc = "idle"
    /\ invocation' = [op |-> "get_user_information", user_id |-> user_id]
    /\ posts' = Append(posts, Get(UserUrl(user_id)))
    /\ pc' = "get"
    /\ UNCHANGED <<request, entryIdx, event, messaging, msgIdx, awaiting,
                   visited, calls, answers, response, result>>
    /\ UNCHANGED <<request_queue, hosting>>

\* The GET of get_user_information is answered, server.py:425-431.
GetAnswered(api_response) ==
    /\ pc = "get"
    /\ answers' = Append(answers, api_response)
    /\ result' = AfterGet(api_response, invocation.user_id)
    /\ pc' = "returned"
    /\ UNCHANGED <<request, entryIdx, event, messaging, msgIdx, awaiting,
                   visited, calls, posts, response, invocation>>
    /\ UNCHANGED <<request_queue, hosting>>

\* Messenger.set_thread_settings up to the await of its first POST,
\* server.py:368-399; with an empty queue the call returns at once.
SetThreadSettings(kwargs) ==
    /\ pc = "idle"
    /\ invocation' = [op |-> "set_thread_settings", kwargs |-> kwargs]
    /\ request_queue' = BuildQueue(kwargs)
    /\ IF Len(request_queue') = 0
       THEN /\ result' = Return(None)
            /\ pc' = "returned"
            /\ UNCHANGED posts
       ELSE /\ posts' = Append(posts, Post(request_queue'[1], "thread_settings"))
            /\ pc' = "settings"
            /\ UNCHANGED result
    /\ UNCHANGED <<request, entryIdx, event, messaging, msgIdx, awaiting,
                   visited, calls, answers, response, hosting>>

\* A POST of set_thread_settings is answered, server.py:397-403: the loop
\* raises, or makes the next POST of the queue, or ends.
SettingsAnswered(api_response) ==
    /\ pc = "settings"
    /\ answers' = Append(answers, api_response)
    /\ LET more == Len(posts) < Len(request_queue)
           after == AfterSettingsPost(api_response, more)
       IN  IF "continue" \in DOMAIN after
           THEN /\ posts' = Append(posts, Post(request_queue[Len(posts) + 1],
                                               "thread_settings"))
                /\ UNCHANGED <<pc, result>>
           ELSE /\ result' = after
                /\ pc' = "returned"
                /\ UNCHANGED posts
    /\ UNCHANGED <<request, entryIdx, event, messaging, msgIdx, awaiting,
                   visited, calls, response, invocation, request_queue,
                   hosting>>

\* What an expression that builds or decodes an object leaves: the object,
\* or the exception raised.
Outcome(object) == IF IsRaise(object) THEN object ELSE Return(object)

\* The application constructs a URLButton, PostbackButton or CallButton.
NewButton(class, title) ==
    /\ pc = "idle"
    /\ invocation' = [op |-> class, text |-> title]
    /\ result' = Outcome(CASE class = "URLButton" ->
                                  URLButton(title, ButtonArgument[class])
                           [] class = "PostbackButton" ->
                                  PostbackButton(title, ButtonArgument[class])
                           [] class = "CallButton" ->
                                  CallButton(title, ButtonArgument[class]))
    /\ pc' = "returned"
    /\ UNCHANGED <<request, entryIdx, event, messaging, msgIdx, awaiting,
                   visited, calls, posts, answers, response, request_queue,
                   hosting>>

\* The application constructs a QuickReply.
NewQuickReply(button_type, title, payload, image_url) ==
    /\ pc = "idle"
    /\ invocation' = [op |-> "QuickReply", button_type |-> button_type,
                      text |-> title, payload |-> payload,
                      image_url |-> image_url]
    /\ result' = Outcome(QuickReply(button_type, title, payload, image_url))
    /\ pc' = "returned"
    /\ UNCHANGED <<request, entryIdx, event, messaging, msgIdx, awaiting,
                   visited, calls, posts, answers, response, request_queue,
                   hosting>>

\* A decoder is applied on its own: message_class.from_json(user_id,
\* timestamp, json).
Decode(message_class, user_id, timestamp, json) ==
    /\ invocation' = [op |-> "from_json", message_class |-> message_class,
                      user_id |-> user_id, timestamp |-> timestamp,
                      json |-> json]
    /\ result' = Outcome(from_json(message_class, user_id, timestamp, json))
    /\ pc' = "returned"
    /\ UNCHANGED <<request, entryIdx, event, messaging, msgIdx, awaiting,
                   visited, calls, posts, answers, response, request_queue,
                   hosting>>

\* handle_event(event_type, event) begins: the handlers registered for the
\* event type are looked up in the table _handlers.
HandleEvent(event_type, user_id, _handlers) ==
    /\ pc = "idle"
    /\ invocation' = [op |-> "handle_event", event_type |-> event_type,
                      event |-> [user_id |-> user_id],
                      handlers |-> _handlers[event_type]]
    /\ awaiting' = [handler |-> 0, items |-> << >>]
    /\ pc' = "handling"
    /\ UNCHANGED <<request, entryIdx, event, messaging, msgIdx, visited,
                   calls, posts, answers, response, result, request_queue,
                   hosting>>

\* `result = await handler(event)' for the next registered handler, up to
\* the first send of what it returned.
CallHandler ==
    /\ pc = "handling"
    /\ awaiting.handler < Len(invocation.handlers)
    /\ LET h == awaiting.handler + 1
           items == Replies(invocation.handlers[h])
       IN  /\ calls' = Append(calls, [handler |-> h,
                                      event |-> invocation.event])
           /\ IF items = << >>
              THEN /\ awaiting' = [handler |-> h, items |-> << >>]
                   /\ pc' = "handling"
                   /\ UNCHANGED posts
              ELSE /\ awaiting' = [handler |-> h, items |-> Tail(items)]
                   /\ pc' = "sending"
                   /\ posts' = Append(posts,
                                  [handler |-> h,
                                   send |-> send(invocation.event.user_id,
                                                 Head(items))])
    /\ UNCHANGED <<request, entryIdx, event, messaging, msgIdx, visited,
                   answers, response, invocation, result, request_queue,
                   hosting>>

\* `await self.send(event.user_id, item)' returns: the next item is sent,
\* or the next handler is due.
SendReturned ==
    /\ pc = "sending"
    /\ IF awaiting.items = << >>
       THEN /\ pc' = "handling"
            /\ UNCHANGED <<awaiting, posts>>
       ELSE /\ pc' = "sending"
            /\ awaiting' = [awaiting EXCEPT !.items = Tail(@)]
            /\ posts' = Append(posts,
                           [handler |-> awaiting.handler,
                            send |-> send(invocation.event.user_id,
                                          Head(awaiting.items))])
    /\ UNCHANGED <<request, entryIdx, event, messaging, msgIdx, visited,
                   calls, answers, response, invocation, result,
                   request_queue, hosting>>

\* handle_event returns once every registered handler has run.
HandleEventReturn ==
    /\ pc = "handling"
    /\ awaiting.handler = Len(invocation.handlers)
    /\ result' = Return(None)
    /\ pc' = "returned"
    /\ UNCHANGED <<request, entryIdx, event, messaging, msgIdx, awaiting,
                   visited, calls, posts, answers, response, invocation,
                   request_queue, hosting>>

\* The application builds a message and serialises it:
\* Message(**kwargs).to_json().
NewMessage(kwargs) ==
    /\ pc = "idle"
    /\ invocation' = [op |-> "Message", kwargs |-> kwargs]
    /\ result' = LET message == Message(kwargs)
                 IN  IF IsRaise(message) THEN message
                     ELSE Return(Message_to_json(message))
    /\ pc' = "returned"
    /\ UNCHANGED <<request, entryIdx, event, messaging, msgIdx, awaiting,
                   visited, calls, posts, answers, response, request_queue,
                   hosting>>

\* The application constructs a ListTemplate.
NewListTemplate(elements, button, compact) ==
    /\ pc = "idle"
    /\ invocation' = [op |-> "ListTemplate", elements |-> elements,
                      button |-> button, compact |-> compact]
    /\ result' = Outcome(ListTemplate(elements, button, compact))
    /\ pc' = "returned"
    /\ UNCHANGED <<request, entryIdx, event, messaging, msgIdx, awaiting,
                   visited, calls, posts, answers, response, request_queue,
                   hosting>>

\* LocationAttachment.from_json(json) applied on its own.
DecodeLocationAttachment ==
    /\ pc = "idle"
    /\ \E json \in LocationJsons :
          /\ invocation' = [op |-> "from_json",
                            message_class |-> "LocationAttachment",
                            json |-> json]
          /\ result' = Outcome(LocationAttachment_from_json(json))
    /\ pc' = "returned"
    /\ UNCHANGED <<request, entryIdx, event, messaging, msgIdx, awaiting,
                   visited, calls, posts, answers, response, request_queue,
                   hosting>>

DecodeAccountLink ==
    /\ pc = "idle"
    /\ \E user_id \in UserIds, timestamp \in Timestamps,
          json \in AccountLinkJsons :
          Decode("AccountLink", user_id, timestamp, json)

DecodeMessageReceived ==
    /\ pc = "idle"
    /\ \E user_id \in UserIds, timestamp \in Timestamps,
          json \in MessageJsons :
          Decode("MessageReceived", user_id, timestamp, json)

\* The request or call is over; the bot serves the next one.
Complete ==
    /\ pc \in {"done", "returned"}
    /\ pc' = "idle"
    /\ request' = NoRequest
    /\ entryIdx' = 0
    /\ event' = None
    /\ messaging' = <<>>
    /\ msgIdx' = 0
    /\ awaiting' = None
    /\ visited' = <<>>
    /\ calls' = <<>>
    /\ posts' = <<>>
    /\ answers' = <<>>
    /\ response' = Pending
    /\ invocation' = None
    /\ result' = Pending
    /\ request_queue' = <<>>
    /\ UNCHANGED hosting

\* The platform delivers one envelope: every envelope of at most MaxKeys
\* recognised keys.
DeliverOne ==
    /\ pc = "idle"
    /\ \E header \in Headers, K \in KeySets :
          \E shapes \in [K -> PayloadShapes] :
             WebhookPost(PostRequest(
                 << [messaging |-> << Envelope(header, K, shapes) >>] >>))

\* The platform delivers a batch: at most MaxBatch envelopes spread over at
\* most MaxEntries entries.
DeliverBatch ==
    /\ pc = "idle"
    /\ \E n \in 0..MaxEntries, m \in 0..MaxBatch :
          \E sizes \in Cuts(n, m), flat \in [1..m -> BatchEnvelopes] :
             WebhookPost(PostRequest(Cut(flat, sizes)))

\* The application calls set_thread_settings.
CallSetThreadSettings ==
    /\ pc = "idle"
    /\ \E kwargs \in SettingsCalls : SetThreadSettings(kwargs)

Next ==
    \/ \E req \in GetRequests : WebhookGet(req)
    \/ DeliverOne
    \/ DeliverBatch
    \/ NextEntry
    \/ NextMessage
    \/ Respond
    \/ HandlerReturn
    \/ HandlerRaise
    \/ \E api_response \in ApiResponses : HandlerReply(api_response)
    \/ \E recipient_id \in RecipientIds, message \in Messages :
          Send(recipient_id, message)
    \/ \E recipient_id \in RecipientIds, action \in Actions :
          SendAction(recipient_id, action)
    \/ \E api_response \in ApiResponses : PostAnswered(api_response)
    \/ \E user_id \in UserIds : Acknowledge(user_id)
    \/ \E api_response \in ApiResponses : AcknowledgeAnswered(api_response)
    \/ \E user_id \in ProfileIds : GetUserInformation(user_id)
    \/ \E api_response \in ProfileResponses : GetAnswered(api_response)
    \/ CallSetThreadSettings
    \/ \E api_response \in SettingsResponses : SettingsAnswered(api_response)
    \/ \E class \in DOMAIN ButtonArgument, title \in Texts :
          NewButton(class, title)
    \/ \E button_type \in QuickReplyTypes, title \in Texts \cup {None},
          payload \in QuickReplyPayloads, image_url \in QuickReplyImages :
          NewQuickReply(button_type, title, payload, image_url)
    \/ \E kwargs \in MessageArguments : NewMessage(kwargs)
    \/ \E event_type \in EventTypes, user_id \in UserIds,
          _handlers \in HandlerTables :
          HandleEvent(event_type, user_id, _handlers)
    \/ CallHandler
    \/ SendReturned
    \/ HandleEventReturn
    \/ \E elements \in ElementLists, button \in TemplateButtons,
          compact \in BOOLEAN :
          NewListTemplate(elements, button, compact)
    \/ DecodeLocationAttachment
    \/ DecodeAccountLink
    \/ DecodeMessageReceived
    \/ Complete

Spec == Init /\ [][Next]_vars

-----------------------------------------------------------------------------
(* Attachment hosting as a state machine of its own: host_attachment has   *)
(* no await, so a call is one step, and it reads and writes nothing of the *)
(* webhook or of the outbound client.                                      *)

\* run(base_url=...) assigns self._base_url, server.py:68.
Run(url) ==
    /\ pc = "idle"
    /\ _base_url' = url
    /\ UNCHANGED <<pc, request, entryIdx, event, messaging, msgIdx, awaiting,
                   visited, calls, posts, answers, response, invocation,
                   result, request_queue, _attachments, static, hosted>>

\* One call of host_attachment, server.py:306-341.
HostAttachment(media_type, filename) ==
    /\ pc = "idle"
    /\ Len(hosted) < MaxHosted
    /\ LET call == host_attachment(media_type, filename, _base_url,
                                   _attachments)
       IN  /\ _attachments' = call.table
           /\ static' = static \o call.served
           /\ hosted' = Append(hosted,
                               [media_type |-> media_type,
                                filename |-> filename,
                                base_url |-> _base_url,
                                result |-> call.result])
    /\ UNCHANGED <<pc, request, entryIdx, event, messaging, msgIdx, awaiting,
                   visited, calls, posts, answers, response, invocation,
                   result, request_queue, _base_url>>

HostingNext ==
    \/ \E url \in BaseUrls : Run(url)
    \/ \E media_type \in MediaTypes, filename \in HostedFiles :
          HostAttachment(media_type, filename)

HostingSpec == Init /\ [][HostingNext]_vars

-----------------------------------------------------------------------------
(* The webhook contract, in terms of the delivered payload.                *)

\* The priority order in which the contract probes the recognised keys.
Priority ==
    <<"message", "delivery", "read", "postback", "referral", "optin",
      "account_linking">>

Recognised(message) ==
    {k \in DOMAIN message : \E i \in 1..Len(Priority) : Priority[i] = k}

\* The first recognised key of an envelope that carries one.
FirstKey(message) ==
    Priority[CHOOSE i \in 1..Len(Priority) :
                /\ Priority[i] \in DOMAIN message
                /\ \A j \in 1..(i - 1) : Priority[j] \notin DOMAIN message]

IsEchoEnvelope(message) ==
    /\ Recognised(message) # {}
    /\ "is_echo" \in DOMAIN message[FirstKey(message)]

HandlerFor(key) ==
    CASE key = "message" -> "message_received"
      [] key = "delivery" -> "message_delivered"
      [] key = "read" -> "message_read"
      [] key = "postback" -> "postback"
      [] key = "referral" -> "referral"
      [] key = "optin" -> "opt_in"
      [] key = "account_linking" -> "account_link"

ClassFor(key) ==
    CASE key = "message" -> "MessageReceived"
      [] key = "delivery" -> "MessageDelivered"
      [] key = "read" -> "MessageRead"
      [] key = "postback" -> "Postback"
      [] key = "referral" -> "Referral"
      [] key = "optin" -> "OptIn"
      [] key = "account_linking" -> "AccountLink"

\* The fields the decode contract requires of a payload.
RequiredFields(key) ==
    CASE key = "message" -> {"mid", "seq"}
      [] key = "delivery" -> {"watermark", "seq"}
      [] key = "read" -> {"watermark", "seq"}
      [] key = "postback" -> {"payload"}
      [] key = "referral" -> {"ref"}
      [] key = "optin" -> {"ref"}
      [] key = "account_linking" -> {"status"}

HasRequired(key, payload) ==
    /\ RequiredFields(key) \subseteq DOMAIN payload
    /\ (key = "account_linking" /\ payload.status # "unlinked")
          => "authorization_code" \in DOMAIN payload

HasHeader(message) ==
    /\ "sender" \in DOMAIN message
    /\ "id" \in DOMAIN message.sender
    /\ Len(message.sender.id) > 0
    /\ \A i \in 1..Len(message.sender.id) :
          message.sender.id[i] \in
             {"0", "1", "2", "3", "4", "5", "6", "7", "8", "9"}
    /\ "timestamp" \in DOMAIN message

\* The number a sender id of the inputs stands for.
SenderNumber(id) ==
    CASE id = <<"1", "2">> -> 12
      [] id = <<"0", "7">> -> 7
      [] OTHER -> -1

\* An envelope whose event is to be dispatched: not an echo, and complete.
Dispatchable(message) ==
    /\ HasHeader(message)
    /\ Recognised(message) # {}
    /\ ~IsEchoEnvelope(message)
    /\ HasRequired(FirstKey(message), message[FirstKey(message)])

\* An envelope no part of which can fail to decode.
WellFormedEnvelope(message) ==
    /\ HasHeader(message)
    /\ \A k \in Recognised(message) :
          "is_echo" \in DOMAIN message[k] \/ HasRequired(k, message[k])

MalformedEnvelope(message) ==
    \/ ~HasHeader(message)
    \/ /\ Recognised(message) # {}
       /\ ~IsEchoEnvelope(message)
       /\ ~HasRequired(FirstKey(message), message[FirstKey(message)])

InWebhook == request.method = "POST"

EnvelopeAt(position) ==
    request.json.entry[position[1]].messaging[position[2]]

RECURSIVE PositionsFrom(_, _)
PositionsFrom(entries, i) ==
    IF i > Len(entries) THEN <<>>
    ELSE [j \in 1..Len(entries[i].messaging) |-> <<i, j>>]
         \o PositionsFrom(entries, i + 1)

\* The positions of the envelopes of the payload, in payload order.
Positions == PositionsFrom(request.json.entry, 1)

CallsAt(position) == {i \in 1..Len(calls) : calls[i].position = position}

HandlersReturned == \A i \in 1..Len(calls) : calls[i].outcome = "returned"

Success == [status |-> 200, body |-> "Success"]

-----------------------------------------------------------------------------
(* Claims about the webhook dispatcher.                                    *)

\* C1: an envelope whose first recognised key (in priority order) has a
\* payload holding 'is_echo' is skipped entirely: no handler of any event
\* type is invoked for it, whatever other recognised keys it carries, and a
\* request of such envelopes alone is answered 200 'Success'.
C1_EchoEnvelopeSkipped ==
    InWebhook =>
        /\ \A i \in 1..Len(calls) : ~IsEchoEnvelope(EnvelopeAt(calls[i].position))
        /\ ( /\ pc = "done"
             /\ \A k \in 1..Len(Positions) :
                   /\ HasHeader(EnvelopeAt(Positions[k]))
                   /\ IsEchoEnvelope(EnvelopeAt(Positions[k])) )
           => response = Success

\* C2: for every envelope that is not an echo, the first recognised key
\* present in the order message, delivery, read, postback, referral, optin,
\* account_linking is the one decoded and dispatched: the envelope invokes
\* the handler of that key with an event of that key's class, at most once,
\* never another handler, and exactly once when the envelope is complete.
C2_FirstKeyDispatched ==
    InWebhook =>
        \A k \in 1..Len(visited) :
            LET message == EnvelopeAt(visited[k])
                here == CallsAt(visited[k])
            IN  (Recognised(message) # {} /\ ~IsEchoEnvelope(message)) =>
                   /\ Cardinality(here) <= 1
                   /\ \A i \in here :
                         /\ calls[i].handler = HandlerFor(FirstKey(message))
                         /\ calls[i].event.class = ClassFor(FirstKey(message))
                   /\ Dispatchable(message) => Cardinality(here) = 1

\* C2 witness: an envelope of two recognised keys, the first not an echo,
\* has had its handler invoked.
C2_Witness ==
    /\ InWebhook
    /\ pc = "handler"
    /\ Cardinality(Recognised(EnvelopeAt(awaiting.position))) = 2
    /\ ~IsEchoEnvelope(EnvelopeAt(awaiting.position))
    /\ awaiting.handler = "postback"

\* C3: for a payload all of whose envelopes are well formed, and handlers
\* that return, every envelope that is not an echo and carries a recognised
\* key is dispatched exactly once, with the decimal value of sender.id as
\* user id and the envelope's timestamp (a 'message' envelope as a
\* MessageReceived), and the request is answered 200 'Success'.
C3_WebhookAcknowledged ==
    ( /\ InWebhook
      /\ pc = "done"
      /\ HandlersReturned
      /\ \A k \in 1..Len(Positions) : WellFormedEnvelope(EnvelopeAt(Positions[k])) )
    => /\ response = Success
       /\ \A k \in 1..Len(Positions) :
             LET message == EnvelopeAt(Positions[k])
                 here == CallsAt(Positions[k])
             IN  (Recognised(message) # {} /\ ~IsEchoEnvelope(message)) =>
                    /\ Cardinality(here) = 1
                    /\ \A i \in here :
                          /\ calls[i].event.user_id = SenderNumber(message.sender.id)
                          /\ calls[i].event.timestamp = message.timestamp
                          /\ "message" \in DOMAIN message
                                => calls[i].event.class = "MessageReceived"

\* C3 witness: a request of one 'message' envelope from sender '07' has
\* been answered after one dispatch.
C3_Witness ==
    /\ InWebhook
    /\ pc = "done"
    /\ response = Success
    /\ Len(Positions) = 1
    /\ Len(calls) = 1
    /\ calls[1].outcome = "returned"
    /\ calls[1].event.class = "MessageReceived"
    /\ calls[1].event.user_id = 7

\* C4: when a payload holds a malformed envelope (no sender.id, no
\* timestamp, or a payload without a field its decode requires) among well
\* formed ones, only the malformed envelope is skipped: every complete
\* envelope of the request is dispatched and the request is answered 200
\* 'Success'.
C4_FailureIsolated ==
    ( /\ InWebhook
      /\ pc = "done"
      /\ HandlersReturned
      /\ \E k \in 1..Len(Positions) : MalformedEnvelope(EnvelopeAt(Positions[k]))
      /\ \E k \in 1..Len(Positions) : Dispatchable(EnvelopeAt(Positions[k])) )
    => /\ response = Success
       /\ \A k \in 1..Len(Positions) :
             Dispatchable(EnvelopeAt(Positions[k])) => CallsAt(Positions[k]) # {}

\* C5: when a handler raises, the exception is caught at the dispatch
\* boundary: the remaining envelopes are still examined and the request is
\* answered 200 'Success'.
C5_HandlerErrorsCaught ==
    ( /\ InWebhook
      /\ pc = "done"
      /\ \E i \in 1..Len(calls) : calls[i].outcome = "raised" )
    => /\ response = Success
       /\ Len(visited) = Len(Positions)

\* C6: within one request the envelopes are examined in payload order
\* (entries in order, envelopes in order within each entry), none skipped
\* and none repeated, all of them when the request is answered 'Success';
\* handlers are invoked in that order, and an invoked handler completes
\* before the next envelope is examined.
C6_SequentialDispatch ==
    InWebhook =>
        /\ Len(visited) <= Len(Positions)
        /\ visited = SubSeq(Positions, 1, Len(visited))
        /\ (pc = "done" /\ response = Success) => visited = Positions
        /\ \A i \in 1..Len(calls) :
              /\ \E k \in 1..Len(visited) : visited[k] = calls[i].position
              /\ \A j \in 1..(i - 1) :
                    \/ calls[j].position[1] < calls[i].position[1]
                    \/ /\ calls[j].position[1] = calls[i].position[1]
                       /\ calls[j].position[2] < calls[i].position[2]
              /\ calls[i].outcome = "awaited" =>
                    /\ i = Len(calls)
                    /\ pc = "handler"
                    /\ calls[i].position = Last(visited)

\* C6 witness: a request of two entries of one envelope each has been
\* answered after both handlers ran, the first entry's first.
C6_Witness ==
    /\ InWebhook
    /\ pc = "done"
    /\ response = Success
    /\ Len(request.json.entry) = 2
    /\ visited = << <<1, 1>>, <<2, 1>> >>
    /\ Len(calls) = 2
    /\ calls[1].position = <<1, 1>>
    /\ calls[2].position = <<2, 1>>
    /\ calls[1].handler # calls[2].handler

-----------------------------------------------------------------------------
(* Claims about registration and the outbound client.                      *)

\* C7: a registration request whose hub.mode is 'subscribe' is answered 200
\* with the hub.challenge string as body if and only if hub.verify_token
\* equals the configured verify token; otherwise it is answered 403 with the
\* fixed error message.
C7_Registration ==
    ( /\ request.method = "GET"
      /\ pc = "done"
      /\ request.args["hub.mode"][1] = "subscribe" )
    => IF request.args["hub.verify_token"][1] = verify_token
       THEN response = [status |-> 200, body |-> request.args["hub.challenge"][1]]
       ELSE response = [status |-> 403,
                        body |-> "Verification token did not match server"]

\* C7 witness: a subscribe request with a token that does not match has
\* been refused.
C7_Witness ==
    /\ request.method = "GET"
    /\ pc = "done"
    /\ request.args["hub.mode"][1] = "subscribe"
    /\ request.args["hub.verify_token"][1] # verify_token
    /\ response.status = 403

C9_SendActionValidated ==
    (pc \in {"post", "returned"} /\ invocation.op = "send_action") =>
        IF invocation.action \in {"typing_on", "typing_off", "mark_seen"}
        THEN posts = << [api_endpoint |-> "messages",
                         data |-> [recipient |-> [id |-> invocation.recipient_id],
                                   sender_action |-> invocation.action]] >>
        ELSE /\ posts = <<>>
             /\ pc = "returned"
             /\ result = [exception |-> "BoomerangException"]

\* C9 witness: a send_action with an invalid action has raised without a
\* POST.
C9_Witness ==
    /\ pc = "returned"
    /\ invocation.op = "send_action"
    /\ invocation.action = "invalid_action"
    /\ posts = <<>>
    /\ result = [exception |-> "BoomerangException"]

\* C10: send_action with a valid action does not raise when the response
\* holds no 'error' object, and raises MessengerAPIException only when the
\* response holds one.
C10_SendActionSucceeds ==
    ( /\ pc = "returned"
      /\ invocation.op = "send_action"
      /\ invocation.action \in {"typing_on", "typing_off", "mark_seen"} )
    => /\ "error" \notin DOMAIN answers[1] => "exception" \notin DOMAIN result
       /\ ( /\ "exception" \in DOMAIN result
            /\ result.exception = "MessengerAPIException" )
          => "error" \in DOMAIN answers[1]

-----------------------------------------------------------------------------
(* Claims about thread settings.                                           *)

\* The settings of the contract, in its fixed order, each with the
\* parameter that asks for it.
SettingsOrder ==
    << [parameter |-> "account_link_url",
        setting |-> <<"account_linking", "none">>],
       [parameter |-> "whitelisted_domains",
        setting |-> <<"domain_whitelisting", "none">>],
       [parameter |-> "get_started_payload",
        setting |-> <<"call_to_actions", "new_thread">>],
       [parameter |-> "greeting_text",
        setting |-> <<"greeting", "none">>],
       [parameter |-> "menu_buttons",
        setting |-> <<"call_to_actions", "existing_thread">>] >>

GivenNames(kwargs) == {kwargs[i][1] : i \in 1..Len(kwargs)}

\* The settings a call asks for, in the fixed order.
ExpectedSettings(kwargs) ==
    LET asked(o) == o.parameter \in GivenNames(kwargs)
    IN  SelectSeq(SettingsOrder, asked)

\* The setting a POSTed body is about.
SettingOf(data) ==
    << data.setting_type,
       IF "thread_state" \in DOMAIN data THEN data.thread_state ELSE "none" >>

InSettings ==
    pc \in {"settings", "returned"} /\ invocation.op = "set_thread_settings"

\* C11: set_thread_settings POSTs to 'thread_settings' only; its POSTs are,
\* one by one, the settings of the arguments that are not None, in the
\* order account_linking, domain_whitelisting, call_to_actions(new_thread),
\* greeting, call_to_actions(existing_thread), whatever the order of the
\* keyword arguments; a call that returns has made exactly one POST per
\* such argument and none for the others.
C11_SettingsOrder ==
    InSettings =>
        LET expected == ExpectedSettings(invocation.kwargs)
        IN  /\ Len(posts) <= Len(expected)
            /\ \A i \in 1..Len(posts) :
                  /\ posts[i].api_endpoint = "thread_settings"
                  /\ SettingOf(posts[i].data) = expected[i].setting
            /\ (pc = "returned" /\ ~IsRaise(result)) =>
                  Len(posts) = Len(expected)

\* C11 witness: a call that names menu_buttons first and greeting_text
\* second, and leaves whitelisted_domains out, has returned after its four
\* POSTs.
C11_Witness ==
    /\ InSettings
    /\ pc = "returned"
    /\ ~IsRaise(result)
    /\ Len(invocation.kwargs) = 4
    /\ invocation.kwargs[1][1] = "menu_buttons"
    /\ invocation.kwargs[2][1] = "greeting_text"
    /\ "whitelisted_domains" \notin GivenNames(invocation.kwargs)
    /\ Len(posts) = 4

-----------------------------------------------------------------------------
(* Claims about attachment hosting.                                        *)

\* The calls of host_attachment made while a base URL was configured.
Configured == {i \in 1..Len(hosted) : hosted[i].base_url \notin {Unset, None}}

\* The registrations of static serving for a file.
Registrations(filename) == {j \in 1..Len(static) : static[j][2] = filename}

\* The relative URL of the contract: '/' followed by the digest.
PathOf(filename) == Str(<<"/", sha256(filename)>>)

\* C13: over any sequence of calls of host_attachment, static serving is
\* registered at most once per filename, and exactly once, by the first
\* call with a configured base URL, for a filename so hosted; the path
\* recorded for a filename is always '/' + sha256(filename), so it never
\* changes; and every call with a configured base URL returns the
\* MediaAttachment of its media type whose URL is base_url + '/' +
\* sha256(filename), the same for all calls for that filename.
C13_HostingIdempotent ==
    /\ \A f \in HostedFiles :
          /\ Cardinality(Registrations(f)) <= 1
          /\ (\E i \in Configured : hosted[i].filename = f)
                <=> Cardinality(Registrations(f)) = 1
          /\ f \in DOMAIN _attachments <=> Registrations(f) # {}
    /\ \A j, k \in 1..Len(static) :
          j < k =>
             \E i \in Configured :
                /\ hosted[i].filename = static[j][2]
                /\ \A h \in Configured :
                      hosted[h].filename = static[k][2] => i < h
    /\ \A f \in DOMAIN _attachments :
          /\ _attachments[f] = PathOf(f)
          /\ \A j \in Registrations(f) : static[j][1] = PathOf(f)
    /\ \A i \in Configured :
          /\ hosted[i].result =
                Return([class |-> "messages.MediaAttachment",
                        media_type |-> hosted[i].media_type,
                        url |-> Str(hosted[i].base_url.str
                                    \o <<"/", sha256(hosted[i].filename)>>)])
          /\ \A h \in Configured :
                hosted[h].filename = hosted[i].filename =>
                   hosted[h].result.value.url = hosted[i].result.value.url

\* C13 witness: the same file was hosted three times, under two media
\* types, and is served once.
C13_Witness ==
    /\ Len(hosted) = 3
    /\ Configured = {1, 2, 3}
    /\ hosted[1].filename = hosted[2].filename
    /\ hosted[2].filename = hosted[3].filename
    /\ hosted[1].media_type # hosted[3].media_type
    /\ Len(static) = 1

\* C14: a call of host_attachment made while the base URL is None raises
\* BoomerangException, leaves the table of hosted attachments as it was and
\* registers no static route, whatever the media type and the filename,
\* hosted before or not.
C14_NoBaseUrl ==
    [][ (Len(hosted') = Len(hosted) + 1 /\ _base_url = None) =>
           /\ Last(hosted').result = Raise("BoomerangException")
           /\ _attachments' = _attachments
           /\ static' = static ]_vars

\* C14 witness: a file hosted under a base URL was asked for again after
\* the base URL became None; the call raised and the file is still in the
\* table.
C14_Witness ==
    \E i, j \in 1..Len(hosted) :
        /\ i < j
        /\ i \in Configured
        /\ hosted[j].base_url = None
        /\ hosted[j].filename = hosted[i].filename
        /\ hosted[j].result = Raise("BoomerangException")
        /\ hosted[j].filename \in DOMAIN _attachments
        /\ Len(static) = 1

-----------------------------------------------------------------------------
(* Claims about buttons.                                                   *)

\* C15: a URLButton, PostbackButton or CallButton constructed with a text
\* of more than 20 characters raises BoomerangException and gives no
\* object; with a text of 20 characters or fewer it gives the button of
\* that class with the text stored unchanged.
C15_ButtonTextLength ==
    (pc = "returned"
     /\ invocation.op \in {"URLButton", "PostbackButton", "CallButton"}) =>
        IF Len(invocation.text.str) > 20
        THEN result = [exception |-> "BoomerangException"]
        ELSE /\ "value" \in DOMAIN result
             /\ result.value.class = invocation.op
             /\ result.value.text = invocation.text

\* C15 witness: a CallButton with a text of 21 characters was refused.
C15_Witness ==
    /\ pc = "returned"
    /\ invocation.op = "CallButton"
    /\ Len(invocation.text.str) = 21
    /\ result = [exception |-> "BoomerangException"]

\* C16: QuickReply('text', text=t, payload=p) with t longer than 20
\* characters fails with a validation error.
C16_QuickReplyTextLength ==
    (pc = "returned"
     /\ invocation.op = "QuickReply"
     /\ invocation.button_type = "text"
     /\ invocation.text # None
     /\ invocation.payload # None
     /\ Len(invocation.text.str) > 20) =>
        "exception" \in DOMAIN result

\* The combinations of arguments the contract lets QuickReply accept.
ValidQuickReply(call) ==
    \/ /\ call.button_type = "text"
       /\ call.text # None
       /\ call.payload # None
    \/ /\ call.button_type = "location"
       /\ call.text = None
       /\ call.payload = None
       /\ call.image_url = None

\* C17: QuickReply is constructed exactly for button_type 'text' with text
\* and payload not None (image_url as one likes) and for button_type
\* 'location' with text, payload and image_url all None; every other
\* combination raises BoomerangException.
C17_QuickReplyValidation ==
    (pc = "returned" /\ invocation.op = "QuickReply") =>
        IF ValidQuickReply(invocation)
        THEN /\ "value" \in DOMAIN result
             /\ result.value.class = "QuickReply"
             /\ result.value.button_type = invocation.button_type
        ELSE result = [exception |-> "BoomerangException"]

\* C17 witness: a location QuickReply given only an image_url was refused.
C17_Witness ==
    /\ pc = "returned"
    /\ invocation.op = "QuickReply"
    /\ invocation.button_type = "location"
    /\ invocation.text = None
    /\ invocation.payload = None
    /\ invocation.image_url # None
    /\ result = [exception |-> "BoomerangException"]

-----------------------------------------------------------------------------
(* Claims about decoding.                                                  *)

Decoded(message_class) ==
    /\ pc = "returned"
    /\ invocation.op = "from_json"
    /\ invocation.message_class = message_class

\* C18: AccountLink.from_json fails when the JSON has no status; for
\* status 'unlinked' it gives authorization_code = None, whether or not
\* the JSON has an authorization_code; for status 'linked' it gives the
\* authorization_code of the JSON; so a decoded event carries a code only
\* when its status is 'linked'.
C18_AccountLinkDecode ==
    Decoded("AccountLink") =>
        LET json == invocation.json
        IN  /\ "status" \notin DOMAIN json =>
                  result = [exception |-> "KeyError"]
            /\ ("status" \in DOMAIN json /\ json.status = "unlinked") =>
                  result = [value |->
                               [class |-> "AccountLink",
                                user_id |-> invocation.user_id,
                                timestamp |-> invocation.timestamp,
                                status |-> "unlinked",
                                authorization_code |-> None]]
            /\ ( /\ "status" \in DOMAIN json
                 /\ json.status = "linked"
                 /\ "authorization_code" \in DOMAIN json ) =>
                  result = [value |->
                               [class |-> "AccountLink",
                                user_id |-> invocation.user_id,
                                timestamp |-> invocation.timestamp,
                                status |-> "linked",
                                authorization_code |->
                                    json.authorization_code]]
            /\ ( /\ "value" \in DOMAIN result
                 /\ result.value.authorization_code # None ) =>
                  result.value.status = "linked"

\* C18 witness: an 'unlinked' JSON that has an authorization_code was
\* decoded to an event without one.
C18_Witness ==
    /\ Decoded("AccountLink")
    /\ "status" \in DOMAIN invocation.json
    /\ invocation.json.status = "unlinked"
    /\ "authorization_code" \in DOMAIN invocation.json
    /\ "value" \in DOMAIN result
    /\ result.value.authorization_code = None

\* An attachment the platform sends: a location with its coordinates, any
\* other type with the url of its payload.
WellFormedAttachment(attachment) ==
    IF attachment.type = "location"
    THEN /\ "coordinates" \in DOMAIN attachment.payload
         /\ {"lat", "long"} \subseteq DOMAIN attachment.payload.coordinates
    ELSE "url" \in DOMAIN attachment.payload

\* The JSON of a message whose optional parts are as the platform sends
\* them.
WellFormedOptions(json) ==
    /\ "quick_reply" \in DOMAIN json => "payload" \in DOMAIN json.quick_reply
    /\ "attachments" \in DOMAIN json =>
          \A i \in 1..Len(json.attachments) :
             WellFormedAttachment(json.attachments[i])

\* C19: MessageReceived.from_json(uid, ts, json) fails with KeyError when
\* mid or seq is missing; otherwise it gives the event with user_id = uid,
\* timestamp = ts, message_id = json.mid, sequence_position = json.seq,
\* text = json.text or '' when there is none, attachments = [] when there
\* are none and quick_reply = None when there is none.
C19_MessageReceivedDecode ==
    Decoded("MessageReceived") =>
        LET json == invocation.json
        IN  IF ~({"mid", "seq"} \subseteq DOMAIN json)
            THEN "exception" \in DOMAIN result
            ELSE /\ WellFormedOptions(json) => "value" \in DOMAIN result
                 /\ "value" \in DOMAIN result =>
                       /\ result.value.class = "MessageReceived"
                       /\ result.value.user_id = invocation.user_id
                       /\ result.value.timestamp = invocation.timestamp
                       /\ result.value.message_id = json.mid
                       /\ result.value.sequence_position = json.seq
                       /\ result.value.text =
                             (IF "text" \in DOMAIN json THEN json.text ELSE "")
                       /\ "attachments" \notin DOMAIN json =>
                             result.value.attachments = <<>>
                       /\ "quick_reply" \notin DOMAIN json =>
                             result.value.quick_reply = None

\* C19 witness: a JSON of mid and seq alone was decoded; the event has the
\* empty text, no attachments and no quick reply.
C19_Witness ==
    /\ Decoded("MessageReceived")
    /\ DOMAIN invocation.json = {"mid", "seq"}
    /\ "value" \in DOMAIN result
    /\ result.value.text = ""
    /\ result.value.attachments = <<>>
    /\ result.value.quick_reply = None

\* C20: the attachments of the event MessageReceived.from_json gives are as
\* many as those of the JSON and in their order; the i-th is a
\* LocationAttachment exactly when the i-th of the JSON has type
\* 'location', and otherwise the MediaAttachment of that type and of the
\* url of its payload.
C20_AttachmentDispatch ==
    ( /\ Decoded("MessageReceived")
      /\ "attachments" \in DOMAIN invocation.json ) =>
        LET json == invocation.json
        IN  /\ ({"mid", "seq"} \subseteq DOMAIN json /\ WellFormedOptions(json))
                  => "value" \in DOMAIN result
            /\ "value" \in DOMAIN result =>
                  /\ Len(result.value.attachments) = Len(json.attachments)
                  /\ \A i \in 1..Len(json.attachments) :
                        LET given == json.attachments[i]
                            made == result.value.attachments[i]
                        IN  /\ made.class = "LocationAttachment"
                                  <=> given.type = "location"
                            /\ given.type # "location" =>
                                  /\ made.class = "MediaAttachment"
                                  /\ made.media_type = given.type
                                  /\ made.url = given.payload.url

\* C20 witness: a message of an image followed by a location was decoded
\* to a MediaAttachment followed by a LocationAttachment.
C20_Witness ==
    /\ Decoded("MessageReceived")
    /\ "attachments" \in DOMAIN invocation.json
    /\ Len(invocation.json.attachments) = 2
    /\ invocation.json.attachments[1].type = "image"
    /\ invocation.json.attachments[2].type = "location"
    /\ "value" \in DOMAIN result
    /\ result.value.attachments[1].class = "MediaAttachment"
    /\ result.value.attachments[2].class = "LocationAttachment"

\* C21: LocationAttachment.from_json puts json.payload.coordinates.lat in
\* latitude and json.payload.coordinates.long in longitude, for every pair
\* of coordinates; the two are never swapped.
C21_LocationDecode ==
    ( /\ Decoded("LocationAttachment")
      /\ {"lat", "long"} \subseteq DOMAIN invocation.json.payload.coordinates )
    => result = [value |->
                    [class |-> "LocationAttachment",
                     latitude |-> invocation.json.payload.coordinates.lat,
                     longitude |-> invocation.json.payload.coordinates.long]]

\* C21 witness: a location of latitude -77 and longitude 38 was decoded.
C21_Witness ==
    /\ Decoded("LocationAttachment")
    /\ invocation.json.payload.coordinates = [lat |-> -77, long |-> 38]
    /\ "value" \in DOMAIN result
    /\ result.value.latitude = -77
    /\ result.value.longitude = 38

C23_ListTemplateValidation ==
    (pc = "returned" /\ invocation.op = "ListTemplate") =>
        LET elements == invocation.elements
            accepted == /\ Len(elements) \in {2, 3, 4}
                        /\ ~invocation.compact =>
                              elements[1].image_url # None
        IN  IF accepted
            THEN /\ "value" \in DOMAIN result
                 /\ result.value.class = "ListTemplate"
                 /\ result.value.elements = elements
            ELSE result = Raise("BoomerangException")

\* C23 witness: a list of two elements that is not compact, whose first
\* element has no image and whose second has one, was refused.
C23_Witness ==
    /\ pc = "returned"
    /\ invocation.op = "ListTemplate"
    /\ Len(invocation.elements) = 2
    /\ ~invocation.compact
    /\ invocation.elements[1].image_url = None
    /\ invocation.elements[2].image_url # None
    /\ result = Raise("BoomerangException")

-----------------------------------------------------------------------------
(* Claims about the replies of handlers.                                   *)

\* handle_event has returned.
Handled == pc = "returned" /\ invocation.op = "handle_event"

\* The sends made for what the h-th handler returned, in the order made.
SendsOf(h) ==
    LET made == SelectSeq(posts, LAMBDA p : p.handler = h)
    IN  [i \in 1..Len(made) |-> made[i].send]

-----------------------------------------------------------------------------
(* Claims about the envelopes the webhook passes over.                     *)

\* An envelope with a decimal sender.id and a timestamp that carries none
\* of the seven recognised keys.
Unrecognised(message) == HasHeader(message) /\ Recognised(message) = {}

\* C26: an envelope that has sender.id and timestamp but none of the seven
\* recognised keys invokes no handler and raises no error: the envelope
\* after it is examined, every complete envelope after it is dispatched
\* when nothing after it fails, and the request is then answered 200
\* 'Success'.
C26_UnrecognisedSkipped ==
    InWebhook =>
        /\ \A i \in 1..Len(calls) :
              ~Unrecognised(EnvelopeAt(calls[i].position))
        /\ pc = "done" =>
              \A k \in 1..Len(visited) :
                 Unrecognised(EnvelopeAt(visited[k])) =>
                    /\ k < Len(Positions) => Len(visited) > k
                    /\ k = Len(Positions) => response = Success
                    /\ ( /\ HandlersReturned
                         /\ \A j \in (k + 1)..Len(Positions) :
                               WellFormedEnvelope(EnvelopeAt(Positions[j])) )
                       => /\ response = Success
                          /\ visited = Positions
                          /\ \A j \in (k + 1)..Len(Positions) :
                                Dispatchable(EnvelopeAt(Positions[j]))
                                   => Cardinality(CallsAt(Positions[j])) = 1

\* C26 witness: a request of an envelope of no recognised key followed by a
\* message has been answered 'Success' after the one dispatch of the
\* message.
C26_Witness ==
    /\ InWebhook
    /\ pc = "done"
    /\ response = Success
    /\ Len(Positions) = 2
    /\ Unrecognised(EnvelopeAt(Positions[1]))
    /\ Len(calls) = 1
    /\ calls[1].position = Positions[2]
    /\ calls[1].handler = "message_received"

\* An envelope with a decimal sender.id and a timestamp all of whose
\* recognised keys (at least one) have a payload that holds 'is_echo'.
EchoOnly(message) ==
    /\ HasHeader(message)
    /\ Recognised(message) # {}
    /\ \A key \in Recognised(message) : "is_echo" \in DOMAIN message[key]

\* C27: the test for 'is_echo' precedes the decoding: a payload that holds
\* 'is_echo' is never decoded by the from_json of its key (no event of that
\* key's class reaches that key's handler), so an envelope of echo payloads,
\* even ones without 'mid' or 'seq', raises nothing: the envelope after it
\* is examined, the complete envelopes after it are dispatched when nothing
\* after it fails, and the request is then answered 200 'Success'.
C27_EchoBeforeDecode ==
    InWebhook =>
        /\ \A i \in 1..Len(calls) :
              LET message == EnvelopeAt(calls[i].position)
              IN  \A key \in Recognised(message) :
                     "is_echo" \in DOMAIN message[key] =>
                        /\ calls[i].handler # HandlerFor(key)
                        /\ calls[i].event.class # ClassFor(key)
        /\ pc = "done" =>
              \A k \in 1..Len(visited) :
                 EchoOnly(EnvelopeAt(visited[k])) =>
                    /\ CallsAt(visited[k]) = {}
                    /\ k < Len(Positions) => Len(visited) > k
                    /\ k = Len(Positions) => response = Success
                    /\ ( /\ HandlersReturned
                         /\ \A j \in (k + 1)..Len(Positions) :
                               WellFormedEnvelope(EnvelopeAt(Positions[j])) )
                       => /\ response = Success
                          /\ visited = Positions
                          /\ \A j \in (k + 1)..Len(Positions) :
                                Dispatchable(EnvelopeAt(Positions[j]))
                                   => Cardinality(CallsAt(Positions[j])) = 1

\* C27 witness: a request of an echoed message that has neither 'mid' nor
\* 'seq', followed by a complete message, has been answered 'Success' after
\* the one dispatch of the second.
C27_Witness ==
    /\ InWebhook
    /\ pc = "done"
    /\ response = Success
    /\ Len(Positions) = 2
    /\ EchoOnly(EnvelopeAt(Positions[1]))
    /\ DOMAIN EnvelopeAt(Positions[1]).message = {"is_echo"}
    /\ Len(calls) = 1
    /\ calls[1].position = Positions[2]
    /\ calls[1].event.class = "MessageReceived"

-----------------------------------------------------------------------------
(* Claims about registration in another mode.                              *)

\* C28: a registration request whose hub.mode is not 'subscribe' is
\* answered with a response of status 4xx, whatever its token: never with
\* the challenge and never with no response at all.
C28_OtherModeRefused ==
    ( /\ request.method = "GET"
      /\ pc = "done"
      /\ request.args["hub.mode"][1] # "subscribe" )
    => /\ response # None
       /\ "status" \in DOMAIN response
       /\ response.status \in 400..499
       /\ response.body # request.args["hub.challenge"][1]

-----------------------------------------------------------------------------
(* Claims about acknowledge and the user profile.                          *)

\* The POST of a sender action to the user.
ActionPost(user_id, action) ==
    [api_endpoint |-> "messages",
     data |-> [recipient |-> [id |-> user_id], sender_action |-> action]]

\* C29: acknowledge(message) sends exactly two actions to message.user_id,
\* 'mark_seen' and then 'typing_on'; 'typing_on' is sent only once
\* 'mark_seen' has been answered, and is never sent when 'mark_seen' is
\* answered with an error of the remote API.
C29_AcknowledgeOrder ==
    (pc \in {"acknowledge", "returned"} /\ invocation.op = "acknowledge") =>
        LET user_id == invocation.message.user_id
        IN  /\ Len(posts) >= 1
            /\ posts[1] = ActionPost(user_id, "mark_seen")
            /\ Len(posts) <= 2
            /\ Len(posts) = 2 =>
                  /\ posts[2] = ActionPost(user_id, "typing_on")
                  /\ Len(answers) >= 1
            /\ (Len(answers) >= 1 /\ "error" \in DOMAIN answers[1])
                  => Len(posts) = 1
            /\ (Len(answers) >= 1 /\ "error" \notin DOMAIN answers[1])
                  => Len(posts) = 2

\* C30: get_user_information(user_id) makes exactly one GET, of the
\* profile URL of the user; an empty object in answer makes it raise
\* MessengerAPIException, and every other answer is returned unchanged.
C30_UserInformation ==
    (pc \in {"get", "returned"} /\ invocation.op = "get_user_information") =>
        /\ Len(posts) = 1
        /\ posts[1].method = "GET"
        /\ posts[1].url.str =
              << "https://graph.facebook.com/v2.6/" >>
              \o (IF invocation.user_id = 7 THEN << "7" >>
                  ELSE << "1", "2", "3", "4", "5" >>)
              \o << "?access_token=", "dummy_page_token" >>
        /\ pc = "returned" =>
              /\ Len(answers) = 1
              /\ IF DOMAIN answers[1] = {}
                 THEN /\ "exception" \in DOMAIN result
                      /\ result.exception = "MessengerAPIException"
                 ELSE result = [value |-> answers[1]]

\* C30 witness: the profile of six fields of user 12345 was returned as
\* it was received.
C30_Witness ==
    /\ pc = "returned"
    /\ invocation.op = "get_user_information"
    /\ invocation.user_id = 12345
    /\ "value" \in DOMAIN result
    /\ DOMAIN result.value = {"profile_pic", "gender", "locale", "first_name",
                              "last_name", "timezone"}
    /\ result.value.first_name = "Busta"
    /\ result.value.timezone = 0

====
